---- MODULE Spec2Model ----
(***************************************************************************)
(* A model of robin, the control-plane client of the batman-adv kernel     *)
(* module: the dump loops of the generic-netlink queries, their entity     *)
(* extractors, and the route-netlink link operations.                      *)
(*                                                                         *)
(* A response stream is a sequence of envelopes as the netlink router      *)
(* hands them to the caller.  An attribute set is a record with one field  *)
(* per attribute type; a field is << >> when the attribute is absent and   *)
(* <<[len, val]>> when it is present with a payload of len bytes.          *)
(***************************************************************************)
EXTENDS Integers, Sequences, FiniteSets, TLC

VARIABLES
    links,      \* the kernel's link table: index -> [name, master, kind, mesh]
    pc,         \* position of the running operation: "idle", "loop", "done", ...
    op,         \* the operation that runs
    args,       \* its arguments
    response,   \* the response stream of its request
    pos,        \* number of envelopes taken from the stream with next()
    acc,        \* the entities pushed so far
    lookups,    \* index->name resolutions issued by the operation, per envelope taken
    result,     \* the operation's return value, once pc = "done"
    request,    \* the request a mutation built and sent, << >> if it built none
    reply,      \* the acknowledgements the kernel queued that nobody has read
    before      \* history: the link table when the running operation was called

vars == <<links, pc, op, args, response, pos, acc, lookups, result, request, reply, before>>

----------------------------------------------------------------------------
(* Bounds of the model. *)

\* longest response stream
MaxStream == 3
\* number of distinct well-formed DATA envelopes per query
MaxRows == 2
\* largest interface index
MaxLinks == 3

----------------------------------------------------------------------------
(* Interface names as byte strings (ASCII), and the 6-byte / 4-byte widths. *)

Bat0 == <<98, 97, 116, 48>>
Eth0 == <<101, 116, 104, 48>>
Wlan0 == <<119, 108, 97, 110, 48>>

\* name of the link with index i
LinkNameOf(i) ==
    IF i = 1 THEN Bat0
    ELSE IF i = 2 THEN Eth0
    ELSE IF i = 3 THEN Wlan0
    ELSE <<105, 102, 48 + i>>

----------------------------------------------------------------------------
(* RobinError and Result<T, RobinError>. *)

Ok(v) == [ok |-> TRUE, kind |-> "Ok", what |-> "", code |-> 0, value |-> v]
NetlinkErr(w, c) == [ok |-> FALSE, kind |-> "Netlink", what |-> w, code |-> c, value |-> << >>]
ParseErr(w) == [ok |-> FALSE, kind |-> "Parse", what |-> w, code |-> 0, value |-> << >>]
NotFoundErr(w) == [ok |-> FALSE, kind |-> "NotFound", what |-> w, code |-> 0, value |-> << >>]

\* Option<T>
None == << >>
Some(v) == <<v>>

----------------------------------------------------------------------------
(* Attribute sets. *)

AttrNames ==
    {"ORIG_ADDRESS", "NEIGH_ADDRESS", "HARD_IFNAME", "HARD_IFINDEX",
     "LAST_SEEN_MSECS", "TQ", "THROUGHPUT", "ROUTER", "FLAG_BEST",
     "BANDWIDTH_DOWN", "BANDWIDTH_UP", "ACTIVE", "TT_ADDRESS", "TT_VID",
     "TT_TTVN", "TT_LAST_TTVN", "TT_CRC32", "TT_FLAGS", "ALGO_NAME"}

Absent == << >>
Attr(len, val) == <<[len |-> len, val |-> val]>>
NoAttrs ==
    [ORIG_ADDRESS |-> Absent, NEIGH_ADDRESS |-> Absent, HARD_IFNAME |-> Absent,
     HARD_IFINDEX |-> Absent, LAST_SEEN_MSECS |-> Absent, TQ |-> Absent,
     THROUGHPUT |-> Absent, ROUTER |-> Absent, FLAG_BEST |-> Absent,
     BANDWIDTH_DOWN |-> Absent, BANDWIDTH_UP |-> Absent, ACTIVE |-> Absent,
     TT_ADDRESS |-> Absent, TT_VID |-> Absent, TT_TTVN |-> Absent,
     TT_LAST_TTVN |-> Absent, TT_CRC32 |-> Absent, TT_FLAGS |-> Absent,
     ALGO_NAME |-> Absent]

\* attrs.get_attribute(a).is_some()
HasAttr(attrs, a) == attrs[a] # Absent
\* attrs.get_attr_payload_as::<T>(a) is Ok: the attribute is there and its
\* payload holds the size_of::<T>() bytes that T is read from
ReadsAs(attrs, a, width) == HasAttr(attrs, a) /\ attrs[a][1].len >= width
PayloadOf(attrs, a) == attrs[a][1].val

\* bytes[..nul_pos], nul_pos the first zero byte or the length
RECURSIVE TrimNul(_)
TrimNul(bytes) ==
    IF bytes = << >> \/ Head(bytes) = 0 THEN << >>
    ELSE <<Head(bytes)>> \o TrimNul(Tail(bytes))

----------------------------------------------------------------------------
(* Name <-> index resolution over a dump of all links. *)

\* the text of a link kind
Batadv == <<98, 97, 116, 97, 100, 118>>
KindText(kind) == IF kind = "batadv" THEN Batadv ELSE <<98, 114, 105, 100, 103, 101>>

\* one message of the Getlink dump: the index in the header, the name as a
\* NUL-terminated string, the master only when the link has one, the kind
\* (inside IFLA_LINKINFO) only when the link is of a virtual kind
LinkMsg(lnk, i) ==
    [ifi_index |-> i,
     IFNAME |-> Attr(Len(lnk[i].name) + 1, lnk[i].name \o <<0>>),
     MASTER |-> IF lnk[i].master = 0 THEN Absent ELSE Attr(4, lnk[i].master),
     KIND |-> IF lnk[i].kind = "ether" THEN Absent
              ELSE Attr(Len(KindText(lnk[i].kind)) + 1, KindText(lnk[i].kind) \o <<0>>)]

\* the Getlink dump of the link table, by ascending index
RECURSIVE DumpOf(_, _)
DumpOf(lnk, rest) ==
    IF rest = {} THEN << >>
    ELSE LET i == CHOOSE x \in rest : \A y \in rest : x <= y
         IN  <<LinkMsg(lnk, i)>> \o DumpOf(lnk, rest \ {i})
LinkDump(lnk) == DumpOf(lnk, DOMAIN lnk)

\* get_attr_payload_as_with_len::<String>: the payload without its final NUL
StringOf(attr) == SubSeq(attr[1].val, 1, attr[1].len - 1)

\* the loop of if_indextoname over the dump
RECURSIVE ScanIndex(_, _)
ScanIndex(dump, ifindex) ==
    IF dump = << >> THEN NotFoundErr("ifindex")
    ELSE IF Head(dump).ifi_index = ifindex /\ Head(dump).IFNAME # Absent
    THEN Ok(StringOf(Head(dump).IFNAME))
    ELSE ScanIndex(Tail(dump), ifindex)

\* if_indextoname: the name of the link whose ifi_index is ifindex
if_indextoname(lnk, ifindex) == ScanIndex(LinkDump(lnk), ifindex)

\* a loop that takes a link whose name starts with ifname
RECURSIVE ScanName_Prefix(_, _)
ScanName_Prefix(dump, ifname) ==
    IF dump = << >> THEN NotFoundErr("ifname")
    ELSE IF /\ Head(dump).IFNAME # Absent
            /\ Len(StringOf(Head(dump).IFNAME)) >= Len(ifname)
            /\ SubSeq(StringOf(Head(dump).IFNAME), 1, Len(ifname)) = ifname
    THEN Ok(Head(dump).ifi_index)
    ELSE ScanName_Prefix(Tail(dump), ifname)

\* the loop of if_nametoindex over the dump
RECURSIVE ScanName(_, _)
ScanName(dump, ifname) ==
    IF dump = << >> THEN NotFoundErr("ifname")
    ELSE IF Head(dump).IFNAME # Absent /\ StringOf(Head(dump).IFNAME) = ifname
    THEN Ok(Head(dump).ifi_index)
    ELSE ScanName(Tail(dump), ifname)

\* if_nametoindex: the index of the first link of the dump named ifname
if_nametoindex(lnk, ifname) == ScanName(LinkDump(lnk), ifname)

----------------------------------------------------------------------------
(* Entity extractors: the body of each dump loop after the envelope is     *)
(* known to carry data.  Each yields [res, lookups]: the entity or the     *)
(* error, and the number of index->name resolutions it issued.             *)

Extracted(entity, n) == [res |-> Ok(entity), lookups |-> n]
Failed(err, n) == [res |-> err, lookups |-> n]

\* .get_attr_payload_as::<T>(a).ok()
Optional(attrs, a, width) ==
    IF ReadsAs(attrs, a, width) THEN Some(PayloadOf(attrs, a)) ELSE None

\* HARD_IFNAME, or the fallback to HARD_IFINDEX and a resolution
OutgoingIf(attrs, lnk) ==
    IF ReadsAs(attrs, "HARD_IFNAME", 16)
    THEN Extracted(TrimNul(PayloadOf(attrs, "HARD_IFNAME")), 0)
    ELSE IF ~ReadsAs(attrs, "HARD_IFINDEX", 4)
    THEN Failed(ParseErr("HARD_IFINDEX"), 0)
    ELSE LET r == if_indextoname(lnk, PayloadOf(attrs, "HARD_IFINDEX"))
         IN  IF r.ok THEN Extracted(r.value, 1)
             ELSE Failed(NetlinkErr("resolve", 0), 1)

ExtractNeighbor_Strict(attrs, lnk) ==
    IF \E a \in AttrNames \ {"NEIGH_ADDRESS", "LAST_SEEN_MSECS", "HARD_IFNAME",
                              "HARD_IFINDEX", "THROUGHPUT"} : HasAttr(attrs, a)
    THEN Failed(ParseErr("unexpected attribute"), 0)
    ELSE IF ~ReadsAs(attrs, "NEIGH_ADDRESS", 6)
    THEN Failed(ParseErr("NEIGH_ADDRESS"), 0)
    ELSE IF ~ReadsAs(attrs, "LAST_SEEN_MSECS", 4)
    THEN Failed(ParseErr("LAST_SEEN_MSECS"), 0)
    ELSE LET oif == OutgoingIf(attrs, lnk)
         IN  IF ~oif.res.ok THEN oif
             ELSE Extracted(
                    [neigh |-> PayloadOf(attrs, "NEIGH_ADDRESS"),
                     outgoing_if |-> oif.res.value,
                     last_seen_ms |-> PayloadOf(attrs, "LAST_SEEN_MSECS"),
                     throughput_kbps |-> Optional(attrs, "THROUGHPUT", 4)],
                    oif.lookups)

ExtractNeighbor(attrs, lnk) ==
    IF ~ReadsAs(attrs, "NEIGH_ADDRESS", 6)
    THEN Failed(ParseErr("NEIGH_ADDRESS"), 0)
    ELSE IF ~ReadsAs(attrs, "LAST_SEEN_MSECS", 4)
    THEN Failed(ParseErr("LAST_SEEN_MSECS"), 0)
    ELSE LET oif == OutgoingIf(attrs, lnk)
         IN  IF ~oif.res.ok THEN oif
             ELSE Extracted(
                    [neigh |-> PayloadOf(attrs, "NEIGH_ADDRESS"),
                     outgoing_if |-> oif.res.value,
                     last_seen_ms |-> PayloadOf(attrs, "LAST_SEEN_MSECS"),
                     throughput_kbps |-> Optional(attrs, "THROUGHPUT", 4)],
                    oif.lookups)

ExtractOriginator(attrs, lnk) ==
    IF ~ReadsAs(attrs, "ORIG_ADDRESS", 6)
    THEN Failed(ParseErr("ORIG_ADDRESS"), 0)
    ELSE IF ~ReadsAs(attrs, "NEIGH_ADDRESS", 6)
    THEN Failed(ParseErr("NEIGH_ADDRESS"), 0)
    ELSE LET oif == OutgoingIf(attrs, lnk)
         IN  IF ~oif.res.ok THEN oif
             ELSE IF ~ReadsAs(attrs, "LAST_SEEN_MSECS", 4)
             THEN Failed(ParseErr("LAST_SEEN_MSECS"), oif.lookups)
             ELSE Extracted(
                    [originator |-> PayloadOf(attrs, "ORIG_ADDRESS"),
                     next_hop |-> PayloadOf(attrs, "NEIGH_ADDRESS"),
                     outgoing_if |-> oif.res.value,
                     last_seen_ms |-> PayloadOf(attrs, "LAST_SEEN_MSECS"),
                     tq |-> Optional(attrs, "TQ", 1),
                     throughput |-> Optional(attrs, "THROUGHPUT", 4),
                     is_best |-> ReadsAs(attrs, "ROUTER", 1)],
                    oif.lookups)

ExtractGateway(attrs, lnk) ==
    IF ~ReadsAs(attrs, "ORIG_ADDRESS", 6)
    THEN Failed(ParseErr("ORIG_ADDRESS"), 0)
    ELSE IF ~ReadsAs(attrs, "ROUTER", 6)
    THEN Failed(ParseErr("ROUTER"), 0)
    ELSE LET oif == OutgoingIf(attrs, lnk)
         IN  IF ~oif.res.ok THEN oif
             ELSE Extracted(
                    [mac_addr |-> PayloadOf(attrs, "ORIG_ADDRESS"),
                     router |-> PayloadOf(attrs, "ROUTER"),
                     outgoing_if |-> oif.res.value,
                     bandwidth_down |-> Optional(attrs, "BANDWIDTH_DOWN", 4),
                     bandwidth_up |-> Optional(attrs, "BANDWIDTH_UP", 4),
                     throughput |-> Optional(attrs, "THROUGHPUT", 4),
                     tq |-> Optional(attrs, "TQ", 1),
                     is_best |-> ReadsAs(attrs, "FLAG_BEST", 1)],
                    oif.lookups)

ExtractInterface(attrs, lnk) ==
    IF ~ReadsAs(attrs, "HARD_IFINDEX", 4)
    THEN Failed(ParseErr("HARD_IFINDEX"), 0)
    ELSE LET r == if_indextoname(lnk, PayloadOf(attrs, "HARD_IFINDEX"))
         IN  IF ~r.ok THEN Failed(NetlinkErr("resolve", 0), 1)
             ELSE Extracted(
                    [ifname |-> r.value, active |-> HasAttr(attrs, "ACTIVE")], 1)

\* ClientFlags::from_bits_truncate: the bits of raw that name a flag
ClientFlagBits == {0, 1, 4, 5, 8, 9, 10, 11}
RECURSIVE SumBits(_, _)
SumBits(raw, bits) ==
    IF bits = {} THEN 0
    ELSE LET b == CHOOSE x \in bits : TRUE
         IN  ((raw \div (2 ^ b)) % 2) * (2 ^ b) + SumBits(raw, bits \ {b})
from_bits_truncate(raw) == SumBits(raw, ClientFlagBits)

ExtractTransglobal(attrs, lnk) ==
    IF ~ReadsAs(attrs, "TT_ADDRESS", 6) THEN Failed(ParseErr("TT_ADDRESS"), 0)
    ELSE IF ~ReadsAs(attrs, "ORIG_ADDRESS", 6) THEN Failed(ParseErr("ORIG_ADDRESS"), 0)
    ELSE IF ~ReadsAs(attrs, "TT_VID", 2) THEN Failed(ParseErr("TT_VID"), 0)
    ELSE IF ~ReadsAs(attrs, "TT_TTVN", 1) THEN Failed(ParseErr("TT_TTVN"), 0)
    ELSE IF ~ReadsAs(attrs, "TT_LAST_TTVN", 1) THEN Failed(ParseErr("TT_LAST_TTVN"), 0)
    ELSE IF ~ReadsAs(attrs, "TT_CRC32", 4) THEN Failed(ParseErr("TT_CRC32"), 0)
    ELSE IF ~ReadsAs(attrs, "TT_FLAGS", 4) THEN Failed(ParseErr("TT_FLAGS"), 0)
    ELSE Extracted(
            [client |-> PayloadOf(attrs, "TT_ADDRESS"),
             orig |-> PayloadOf(attrs, "ORIG_ADDRESS"),
             vid |-> PayloadOf(attrs, "TT_VID"),
             ttvn |-> PayloadOf(attrs, "TT_TTVN"),
             last_ttvn |-> PayloadOf(attrs, "TT_LAST_TTVN"),
             flags |-> from_bits_truncate(PayloadOf(attrs, "TT_FLAGS")),
             crc32 |-> PayloadOf(attrs, "TT_CRC32"),
             is_best |-> HasAttr(attrs, "FLAG_BEST")],
            0)

\* get_translocal reading TT_VID before TT_ADDRESS
ExtractTranslocal_VidFirst(attrs, lnk) ==
    IF ~ReadsAs(attrs, "TT_VID", 2) THEN Failed(ParseErr("TT_VID"), 0)
    ELSE IF ~ReadsAs(attrs, "TT_ADDRESS", 6) THEN Failed(ParseErr("TT_ADDRESS"), 0)
    ELSE IF ~ReadsAs(attrs, "TT_CRC32", 4) THEN Failed(ParseErr("TT_CRC32"), 0)
    ELSE IF ~ReadsAs(attrs, "TT_FLAGS", 4) THEN Failed(ParseErr("TT_FLAGS"), 0)
    ELSE Extracted([client |-> PayloadOf(attrs, "TT_ADDRESS")], 0)

ExtractTranslocal(attrs, lnk) ==
    IF ~ReadsAs(attrs, "TT_ADDRESS", 6) THEN Failed(ParseErr("TT_ADDRESS"), 0)
    ELSE IF ~ReadsAs(attrs, "TT_VID", 2) THEN Failed(ParseErr("TT_VID"), 0)
    ELSE IF ~ReadsAs(attrs, "TT_CRC32", 4) THEN Failed(ParseErr("TT_CRC32"), 0)
    ELSE IF ~ReadsAs(attrs, "TT_FLAGS", 4) THEN Failed(ParseErr("TT_FLAGS"), 0)
    ELSE LET seen == IF ReadsAs(attrs, "LAST_SEEN_MSECS", 4)
                     THEN <<PayloadOf(attrs, "LAST_SEEN_MSECS") \div 1000,
                            PayloadOf(attrs, "LAST_SEEN_MSECS") % 1000>>
                     ELSE <<0, 0>>
         IN  Extracted(
                [client |-> PayloadOf(attrs, "TT_ADDRESS"),
                 vid |-> PayloadOf(attrs, "TT_VID"),
                 flags |-> from_bits_truncate(PayloadOf(attrs, "TT_FLAGS")),
                 crc32 |-> PayloadOf(attrs, "TT_CRC32"),
                 last_seen_secs |-> seen[1],
                 last_seen_msecs |-> seen[2]],
                0)

----------------------------------------------------------------------------
(* Response envelopes. *)

Data(attrs) == [type |-> "DATA", payload |-> "Payload", code |-> 0, attrs |-> attrs]
\* a message of a data type whose payload is NlPayload::Empty
DataEmpty == [type |-> "DATA", payload |-> "Empty", code |-> 0, attrs |-> NoAttrs]
Done == [type |-> "DONE", payload |-> "Empty", code |-> 0, attrs |-> NoAttrs]
\* Nlmsg::Error carrying NlPayload::Err(code)
Error(c) == [type |-> "ERROR", payload |-> "Err", code |-> c, attrs |-> NoAttrs]
\* Nlmsg::Error whose payload is not NlPayload::Err
ErrorUnknown == [type |-> "ERROR", payload |-> "Empty", code |-> 0, attrs |-> NoAttrs]

IsTerminator(env) ==
    env.type = "DONE" \/ (env.type = "ERROR" /\ env.payload = "Err" /\ env.code = 0)

----------------------------------------------------------------------------
(* The dump loops. *)

DumpOps ==
    {"get_originators", "get_neighbors", "get_gateways_list", "get_interfaces",
     "get_transglobal", "get_translocal"}

AlgoOp == "get_available_routing_algos"

Extract(o, attrs, lnk) ==
    CASE o = "get_originators" -> ExtractOriginator(attrs, lnk)
      [] o = "get_neighbors" -> ExtractNeighbor(attrs, lnk)
      [] o = "get_gateways_list" -> ExtractGateway(attrs, lnk)
      [] o = "get_interfaces" -> ExtractInterface(attrs, lnk)
      [] o = "get_transglobal" -> ExtractTransglobal(attrs, lnk)
      [] o = "get_translocal" -> ExtractTranslocal(attrs, lnk)

Running == [ok |-> FALSE, kind |-> "Running", what |-> "", code |-> 0, value |-> << >>]

Continue(a, n) == [brk |-> FALSE, res |-> Running, acc |-> a, lookups |-> n]
Break(a) == [brk |-> TRUE, res |-> Ok(a), acc |-> a, lookups |-> 0]
Return(err, n) == [brk |-> TRUE, res |-> err, acc |-> << >>, lookups |-> n]

\* a loop that ignores Nlmsg::Done and goes on reading
OnDone_Continue(a) == Continue(a, 0)
\* The Nlmsg::Done arm of a dump loop: break.
OnDone(a) == Break(a)

\* an Error arm that treats code 0 as a failure
OnError_ZeroFails(env, a) ==
    IF env.payload = "Err"
    THEN Return(NetlinkErr("netlink error", env.code), 0)
    ELSE Return(NetlinkErr("unknown netlink error payload", 0), 0)
\* an Error arm that ends the dump with Ok on every code
OnError_KeepsRows(env, a) ==
    IF env.payload = "Err" THEN Break(a)
    ELSE Return(NetlinkErr("unknown netlink error payload", 0), 0)
\* The Nlmsg::Error arm of a dump loop.
OnError(env, a) ==
    IF env.payload = "Err"
    THEN IF env.code = 0 THEN Break(a)
         ELSE Return(NetlinkErr("netlink error", env.code), 0)
    ELSE Return(NetlinkErr("unknown netlink error payload", 0), 0)

\* The rest of the loop body: the payload, the extractor, the push.
OnData(o, env, a, lnk) ==
    IF env.payload # "Payload"
    THEN Return(ParseErr("Message without payload"), 0)
    ELSE LET x == Extract(o, env.attrs, lnk)
         IN  IF x.res.ok THEN Continue(Append(a, x.res.value), x.lookups)
             ELSE Return(x.res, x.lookups)

\* One pass of `while let Some(msg) = response.next().await` in a dump query,
\* on envelope env with the entities a pushed so far.
DumpIteration(o, env, a, lnk) ==
    IF env.type = "DONE" THEN OnDone(a)
    ELSE IF env.type = "ERROR" THEN OnError(env, a)
    ELSE OnData(o, env, a, lnk)

\* One pass of the loop of get_available_routing_algos.
AlgoIteration(env, a) ==
    IF env.payload # "Payload" THEN Continue(a, 0)
    ELSE IF HasAttr(env.attrs, "ALGO_NAME")
    THEN Continue(Append(a, TrimNul(PayloadOf(env.attrs, "ALGO_NAME"))), 0)
    ELSE Continue(a, 0)

\* What the operation returns when response.next() yields None.
AfterLoop(o, a) ==
    IF o = AlgoOp /\ a = << >>
    THEN NotFoundErr("No routing algorithms found")
    ELSE Ok(a)

Iteration(o, env, a, lnk) ==
    IF o = AlgoOp THEN AlgoIteration(env, a) ELSE DumpIteration(o, env, a, lnk)

\* The mesh interface the request names: get_originators and
\* get_gateways_list name "bat0" themselves, the routing-algorithm list names none.
MeshOf(o, mesh_if) ==
    IF o \in {"get_originators", "get_gateways_list"} THEN Bat0 ELSE mesh_if

\* The code before the loop: resolve the mesh interface, send the request.
Preamble(o, mesh_if, lnk) ==
    IF o = AlgoOp THEN Ok(0)
    ELSE LET r == if_nametoindex(lnk, MeshOf(o, mesh_if))
         IN  IF r.ok THEN r ELSE NetlinkErr("interface is not present", 0)

\* enum Command: the generic netlink command codes of batman-adv
Command ==
    [BatadvCmdGetMeshInfo |-> 1, BatadvCmdGetRoutingAlgos |-> 4,
     BatadvCmdGetHardif |-> 5, BatadvCmdGetTranstableLocal |-> 6,
     BatadvCmdGetTranstableGlobal |-> 7, BatadvCmdGetOriginators |-> 8,
     BatadvCmdGetNeighbors |-> 9, BatadvCmdGetGateways |-> 10,
     BatadvCmdSetMesh |-> 15]

\* the command each query hands to build_genl_msg
CommandOf(o) ==
    CASE o = "get_originators" -> Command.BatadvCmdGetOriginators
      [] o = "get_neighbors" -> Command.BatadvCmdGetOriginators
      [] o = "get_gateways_list" -> Command.BatadvCmdGetGateways
      [] o = "get_interfaces" -> Command.BatadvCmdGetHardif
      [] o = "get_transglobal" -> Command.BatadvCmdGetTranstableGlobal
      [] o = "get_translocal" -> Command.BatadvCmdGetTranstableLocal
      [] o = AlgoOp -> Command.BatadvCmdGetRoutingAlgos

\* a request as it leaves a connection: the RTM_GETLINK dump (type 18) that
\* if_nametoindex and if_indextoname send on a route connection of their
\* own, and the dump a query sends on its batadv connection
GetlinkDump == [family |-> "route", cmd |-> 18, dump |-> TRUE]
QueryDump(o) == [family |-> "batadv", cmd |-> CommandOf(o), dump |-> TRUE]

\* n link dumps
RECURSIVE Resolutions(_)
Resolutions(n) == IF n = 0 THEN << >> ELSE <<GetlinkDump>> \o Resolutions(n - 1)

\* the link dumps of the index->name resolutions of the envelopes taken
RECURSIVE LookupRequests(_)
LookupRequests(ls) ==
    IF ls = << >> THEN << >>
    ELSE Resolutions(Head(ls)) \o LookupRequests(Tail(ls))

\* the requests operation o, called with mesh_if on link table lnk, has sent
\* when its loop has made the resolutions ls: the resolution of the mesh
\* interface, the dump itself if the resolution succeeded, and one link dump
\* per resolution in the loop
RequestsOf(o, mesh_if, lnk, ls) ==
    (IF o = AlgoOp THEN << >> ELSE <<GetlinkDump>>)
        \o (IF Preamble(o, mesh_if, lnk).ok THEN <<QueryDump(o)>> ELSE << >>)
        \o LookupRequests(ls)

----------------------------------------------------------------------------
(* The kernel's replies the model draws from. *)

\* the 16-byte HARD_IFNAME field of eth0, and the same name as a 5-byte string
IfnameField == Attr(16, Eth0 \o <<0>>)
IfnameShort == Attr(5, Eth0 \o <<0>>)
\* a flag attribute: no payload
FlagAttr == Attr(0, 0)

\* row r names its interface by name when r is odd, by index (eth0's) when even
WithIf(r, attrs) ==
    IF r % 2 = 1 THEN [attrs EXCEPT !.HARD_IFNAME = IfnameField]
    ELSE [attrs EXCEPT !.HARD_IFINDEX = Attr(4, 2)]

OddOnly(r, attr) == IF r % 2 = 1 THEN attr ELSE Absent

\* the r-th row of the table the kernel dumps for query o
RowAttrs(o, r) ==
    CASE o = "get_originators" ->
            WithIf(r, [NoAttrs EXCEPT !.ORIG_ADDRESS = Attr(6, r),
                                      !.NEIGH_ADDRESS = Attr(6, r + 1),
                                      !.LAST_SEEN_MSECS = Attr(4, 100 * r),
                                      !.TQ = Attr(1, 255 - r),
                                      !.FLAG_BEST = OddOnly(r, FlagAttr)])
      [] o = "get_neighbors" ->
            WithIf(r, [NoAttrs EXCEPT !.NEIGH_ADDRESS = Attr(6, r),
                                      !.LAST_SEEN_MSECS = Attr(4, 100 * r),
                                      !.THROUGHPUT = OddOnly(r, Attr(4, 0))])
      [] o = "get_gateways_list" ->
            WithIf(r, [NoAttrs EXCEPT !.ORIG_ADDRESS = Attr(6, r),
                                      !.ROUTER = Attr(6, r + 1),
                                      !.BANDWIDTH_DOWN = Attr(4, 100),
                                      !.BANDWIDTH_UP = Attr(4, 20),
                                      !.TQ = OddOnly(r, Attr(1, 0)),
                                      !.FLAG_BEST = OddOnly(r, FlagAttr)])
      [] o = "get_interfaces" ->
            [NoAttrs EXCEPT !.HARD_IFINDEX = Attr(4, 1 + (r % 2)),
                            !.HARD_IFNAME = OddOnly(r, IfnameField),
                            !.ACTIVE = OddOnly(r, FlagAttr)]
      [] o = "get_transglobal" ->
            [NoAttrs EXCEPT !.TT_ADDRESS = Attr(6, r),
                            !.ORIG_ADDRESS = Attr(6, r + 1),
                            !.TT_VID = Attr(2, 32768 + r),
                            !.TT_TTVN = Attr(1, r),
                            !.TT_LAST_TTVN = Attr(1, r),
                            !.TT_CRC32 = Attr(4, r),
                            !.TT_FLAGS = Attr(4, 16 + 4 * r),
                            !.FLAG_BEST = OddOnly(r, FlagAttr)]
      [] o = "get_translocal" ->
            [NoAttrs EXCEPT !.TT_ADDRESS = Attr(6, r),
                            !.TT_VID = Attr(2, 32768 + r),
                            !.TT_CRC32 = Attr(4, r),
                            !.TT_FLAGS = Attr(4, 16 + 4 * r),
                            !.LAST_SEEN_MSECS = OddOnly(r, Attr(4, 1500 * (r - 1)))]
      [] o = AlgoOp ->
            [NoAttrs EXCEPT !.ALGO_NAME = Attr(32, <<66, 64 + r, 0>>)]

\* an attribute the extractor of o requires
RequiredAttr(o) ==
    CASE o = "get_originators" -> "LAST_SEEN_MSECS"
      [] o = "get_neighbors" -> "LAST_SEEN_MSECS"
      [] o = "get_gateways_list" -> "ROUTER"
      [] o = "get_interfaces" -> "HARD_IFINDEX"
      [] o = "get_transglobal" -> "TT_CRC32"
      [] o = "get_translocal" -> "TT_VID"
      [] o = AlgoOp -> "ALGO_NAME"

\* row 1 without that attribute
LackingRow(o) == [RowAttrs(o, 1) EXCEPT ![RequiredAttr(o)] = Absent]

\* nonzero error codes the kernel answers with
ErrCodes == {5, 19}

StreamEnvelopes(o) ==
    {Data(RowAttrs(o, r)) : r \in 1..MaxRows}
        \cup {Data(LackingRow(o)), Done, Error(0)}
        \cup {Error(c) : c \in ErrCodes}

Streams(o) == UNION {[1..n -> StreamEnvelopes(o)] : n \in 0..MaxStream}

----------------------------------------------------------------------------
(* The dump queries as a state machine: one step per envelope taken.       *)

\* a link table with the mesh interface bat0 (index 1) and eth0 (index 2)
LinkKindOf(i) == IF i = 1 THEN "batadv" ELSE "ether"
\* the boolean mesh parameters of a new batadv link
DefaultMesh ==
    [aggregated_ogms |-> TRUE, ap_isolation |-> FALSE, bridge_loop_avoidance |-> TRUE,
     gw_mode |-> 0]
MeshLinks ==
    [i \in {1, 2} |-> [name |-> LinkNameOf(i), master |-> 0, kind |-> LinkKindOf(i),
                       mesh |-> DefaultMesh]]

Idle ==
    /\ pc = "idle"
    /\ op = "none"
    /\ args = << >>
    /\ response = << >>
    /\ pos = 0
    /\ acc = << >>
    /\ lookups = << >>
    /\ result = Running
    /\ request = << >>
    /\ reply = << >>
    /\ before = << >>

Init ==
    /\ links = MeshLinks
    /\ Idle

\* The query is called and its mesh interface does not resolve: it returns
\* before any request is sent.
CallFails(o, mesh_if) ==
    /\ pc = "idle"
    /\ ~Preamble(o, mesh_if, links).ok
    /\ pc' = "done"
    /\ op' = o
    /\ args' = <<mesh_if>>
    /\ result' = Preamble(o, mesh_if, links)
    /\ UNCHANGED <<links, response, pos, acc, lookups, request, reply, before>>

\* The query is called, sends its request, and the kernel's reply is stream.
Call(o, mesh_if, stream) ==
    /\ pc = "idle"
    /\ Preamble(o, mesh_if, links).ok
    /\ pc' = "loop"
    /\ op' = o
    /\ args' = <<mesh_if>>
    /\ response' = stream
    /\ UNCHANGED <<links, pos, acc, lookups, result, request, reply, before>>

\* response.next().await and the loop body, or the code after the loop.
Step ==
    /\ pc = "loop"
    /\ IF pos = Len(response)
       THEN /\ pc' = "done"
            /\ result' = AfterLoop(op, acc)
            /\ UNCHANGED <<pos, acc, lookups>>
       ELSE LET it == Iteration(op, response[pos + 1], acc, links)
            IN  /\ pos' = pos + 1
                /\ acc' = it.acc
                /\ lookups' = Append(lookups, it.lookups)
                /\ pc' = IF it.brk THEN "done" ELSE "loop"
                /\ result' = it.res
    /\ UNCHANGED <<links, op, args, response, request, reply, before>>

\* The caller takes the result; the next operation may start.
Finish ==
    /\ pc = "done"
    /\ pc' = "idle"
    /\ op' = "none"
    /\ args' = << >>
    /\ response' = << >>
    /\ pos' = 0
    /\ acc' = << >>
    /\ lookups' = << >>
    /\ result' = Running
    /\ request' = << >>
    /\ reply' = << >>
    /\ before' = << >>
    /\ UNCHANGED links

\* the mesh interfaces a caller names: one that exists, one that does not
MeshArgs(o) ==
    IF MeshOf(o, Wlan0) = Wlan0 /\ o # AlgoOp THEN {Bat0, Wlan0} ELSE {Bat0}

Next ==
    \/ /\ pc = "idle"
       /\ \E o \in DumpOps \cup {AlgoOp} : \E m \in MeshArgs(o) : CallFails(o, m)
    \/ /\ pc = "idle"
       /\ \E o \in DumpOps \cup {AlgoOp} : \E m \in MeshArgs(o) :
             \E stream \in Streams(o) : Call(o, m, stream)
    \/ Step
    \/ Finish

Spec == Init /\ [][Next]_vars

----------------------------------------------------------------------------
(* Two callers at once.  Under SpecPair every per-call variable holds one  *)
(* value per task, and response and pos hold one value per connection: the *)
(* envelopes the kernel queued on it and the number taken from it.         *)

Tasks == {1, 2}

\* every task on one connection
Connection_Shared(t) == 1

\* the connection task t reads: BatadvSocket::connect() makes a new socket on
\* every call, so each task has a connection of its own
Connection(t) == t

PairOps == {"get_originators", "get_gateways_list"}
PairLen == 2
PairEnvelopes(o) == {Data(RowAttrs(o, 1)), Data(RowAttrs(o, 2)), Done, Error(5)}
PairStreams(o) == UNION {[1..n -> PairEnvelopes(o)] : n \in 0..PairLen}

InitPair ==
    /\ links = MeshLinks
    /\ pc = [t \in Tasks |-> "idle"]
    /\ op = [t \in Tasks |-> "none"]
    /\ args = [t \in Tasks |-> << >>]
    /\ response = [c \in Tasks |-> << >>]
    /\ pos = [c \in Tasks |-> 0]
    /\ acc = [t \in Tasks |-> << >>]
    /\ lookups = [t \in Tasks |-> << >>]
    /\ result = [t \in Tasks |-> Running]
    /\ request = << >>
    /\ reply = << >>
    /\ before = << >>

\* task t calls query o; the kernel queues its reply on t's connection
PairCall(t, o, mesh_if, stream) ==
    /\ pc[t] = "idle"
    /\ Preamble(o, mesh_if, links).ok
    /\ pc' = [pc EXCEPT ![t] = "loop"]
    /\ op' = [op EXCEPT ![t] = o]
    /\ args' = [args EXCEPT ![t] = <<mesh_if>>]
    /\ response' = [response EXCEPT ![Connection(t)] = @ \o stream]
    /\ UNCHANGED <<links, pos, acc, lookups, result, request, reply, before>>

\* task t takes the next envelope of its connection, or leaves the loop
PairStep(t) ==
    /\ pc[t] = "loop"
    /\ LET c == Connection(t)
       IN  IF pos[c] = Len(response[c])
           THEN /\ pc' = [pc EXCEPT ![t] = "done"]
                /\ result' = [result EXCEPT ![t] = AfterLoop(op[t], acc[t])]
                /\ UNCHANGED <<pos, acc, lookups>>
           ELSE LET it == Iteration(op[t], response[c][pos[c] + 1], acc[t], links)
                IN  /\ pos' = [pos EXCEPT ![c] = @ + 1]
                    /\ acc' = [acc EXCEPT ![t] = it.acc]
                    /\ lookups' = [lookups EXCEPT ![t] = Append(@, it.lookups)]
                    /\ pc' = [pc EXCEPT ![t] = IF it.brk THEN "done" ELSE "loop"]
                    /\ result' = [result EXCEPT ![t] = it.res]
    /\ UNCHANGED <<links, op, args, response, request, reply, before>>

\* task t resolves a name: a link dump on a route connection of its own
PairResolve(t, ifname) ==
    /\ pc[t] = "idle"
    /\ pc' = [pc EXCEPT ![t] = "done"]
    /\ op' = [op EXCEPT ![t] = "if_nametoindex"]
    /\ args' = [args EXCEPT ![t] = <<ifname>>]
    /\ result' = [result EXCEPT ![t] = if_nametoindex(links, ifname)]
    /\ UNCHANGED <<links, response, pos, acc, lookups, request, reply, before>>

\* the caller of task t takes the result; the connection is dropped
PairFinish(t) ==
    /\ pc[t] = "done"
    /\ pc' = [pc EXCEPT ![t] = "idle"]
    /\ op' = [op EXCEPT ![t] = "none"]
    /\ args' = [args EXCEPT ![t] = << >>]
    /\ response' = [response EXCEPT ![Connection(t)] = << >>]
    /\ pos' = [pos EXCEPT ![Connection(t)] = 0]
    /\ acc' = [acc EXCEPT ![t] = << >>]
    /\ lookups' = [lookups EXCEPT ![t] = << >>]
    /\ result' = [result EXCEPT ![t] = Running]
    /\ UNCHANGED <<links, request, reply, before>>

NextPair ==
    \/ \E t \in Tasks : \E o \in PairOps : \E stream \in PairStreams(o) :
          PairCall(t, o, Bat0, stream)
    \/ \E t \in Tasks : PairStep(t)
    \/ \E t \in Tasks : \E n \in {Bat0, Wlan0} : PairResolve(t, n)
    \/ \E t \in Tasks : PairFinish(t)

SpecPair == InitPair /\ [][NextPair]_vars

\* the loop of query o run from its first envelope to its end with nothing
\* else running: the entities a pushed so far, the envelopes of stream left
RECURSIVE RunLoop(_, _, _, _)
RunLoop(o, stream, a, lnk) ==
    IF stream = << >> THEN AfterLoop(o, a)
    ELSE LET it == Iteration(o, Head(stream), a, lnk)
         IN  IF it.brk THEN it.res ELSE RunLoop(o, Tail(stream), it.acc, lnk)

\* what operation o returns when it is the only one running
RunAlone(o, a, stream, lnk) ==
    IF o = "if_nametoindex" THEN if_nametoindex(lnk, a[1])
    ELSE IF ~Preamble(o, a[1], lnk).ok THEN Preamble(o, a[1], lnk)
    ELSE RunLoop(o, stream, << >>, lnk)

\* C23: whatever the interleaving of two tasks, a task that has returned has
\* the result its operation gives when run alone on the reply the kernel sent
\* it and the same link table.
C23_ConcurrentAsAlone ==
    \A t \in Tasks :
        pc[t] = "done" => result[t] = RunAlone(op[t], args[t], response[t], links)

\* get_originators has returned two entities while get_gateways_list, started
\* meanwhile, is inside its loop with a resolution of its own made
C23_Witness ==
    /\ pc[1] = "done" /\ op[1] = "get_originators"
    /\ result[1].ok /\ Len(result[1].value) = 2
    /\ pc[2] = "loop" /\ op[2] = "get_gateways_list"
    /\ pos[2] = 1 /\ lookups[2] = <<1>>

----------------------------------------------------------------------------
(* Attribute payloads: what GenlAttrBuilder::add writes and what the       *)
(* queries read back.                                                      *)

\* v.to_le_bytes(): the n bytes of v, lowest first
LeBytes(v, n) == [i \in 1..n |-> (v \div (256 ^ (i - 1))) % 256]

\* a builder that cuts a string to 15 bytes before the terminator
attr_payload_Cut15(value) ==
    CASE value.tag = "String" ->
            SubSeq(value.v, 1, IF Len(value.v) < 15 THEN Len(value.v) ELSE 15) \o <<0>>
      [] value.tag = "Bytes" -> value.v
      [] value.tag = "U32" -> LeBytes(value.v, 4)
      [] value.tag = "U16" -> LeBytes(value.v, 2)
      [] value.tag = "U8" -> <<value.v>>

\* the match in GenlAttrBuilder::add: the payload bytes of an AttrValueForSend
attr_payload(value) ==
    CASE value.tag = "String" -> value.v \o <<0>>
      [] value.tag = "Bytes" -> value.v
      [] value.tag = "U32" -> LeBytes(value.v, 4)
      [] value.tag = "U16" -> LeBytes(value.v, 2)
      [] value.tag = "U8" -> <<value.v>>

\* GenlAttrBuilder::add: the attribute that is pushed
add(value) == Attr(Len(attr_payload(value)), attr_payload(value))

\* get_attr_payload_as::<[u8; 6]> and MacAddr6::from
DecodeMac(attr) ==
    IF attr # Absent /\ attr[1].len >= 6 THEN Ok(SubSeq(attr[1].val, 1, 6))
    ELSE ParseErr("address missing")

\* get_attr_payload_as_with_len::<Vec<u8>> and the cut at the first zero byte
DecodeName(attr) ==
    IF attr # Absent THEN Ok(TrimNul(attr[1].val))
    ELSE ParseErr("routing algorithm name missing")

\* the addresses and names the round trips are run on
MacBytes == {0, 1, 255}
Macs == [1..6 -> MacBytes]
MaxName == 3
NameChars == {66, 95}
LongName == [i \in 1..31 |-> 65]
AlgoNames ==
    UNION {[1..n -> NameChars] : n \in 0..MaxName}
        \cup {LongName, <<66, 65, 84, 77, 65, 78, 95, 73, 86>>}

RoundTrip(o, value, decoded) ==
    /\ pc = "idle"
    /\ pc' = "done"
    /\ op' = o
    /\ args' = <<value.v>>
    /\ request' = add(value)
    /\ result' = decoded
    /\ UNCHANGED <<links, response, pos, acc, lookups, reply, before>>

\* an address is sent as a Bytes attribute and read back
MacRoundTrip(mac) ==
    RoundTrip("mac", [tag |-> "Bytes", v |-> mac],
              DecodeMac(add([tag |-> "Bytes", v |-> mac])))

\* a name is sent as a String attribute and read back
NameRoundTrip(name) ==
    RoundTrip("name", [tag |-> "String", v |-> name],
              DecodeName(add([tag |-> "String", v |-> name])))

NextCodec ==
    \/ /\ pc = "idle"
       /\ \E mac \in Macs : MacRoundTrip(mac)
    \/ /\ pc = "idle"
       /\ \E name \in AlgoNames : NameRoundTrip(name)
    \/ Finish

SpecCodec == Init /\ [][NextCodec]_vars

\* C24: a 6-byte address sent as a Bytes attribute has a 6-byte payload that
\* decodes to the same address, and a name of at most 31 characters without a
\* zero byte sent as a String attribute decodes, cut at the first zero byte, to
\* the same name.
C24_EncodeDecodeRoundTrip ==
    (pc = "done" /\ op \in {"mac", "name"})
        => /\ op = "mac" => request[1].len = 6
           /\ (op = "mac" \/ (Len(args[1]) <= 31 /\ \A i \in 1..Len(args[1]) : args[1][i] # 0))
                 => result = Ok(args[1])

\* a name of 31 characters has made the round trip
C24_Witness ==
    /\ pc = "done" /\ op = "name" /\ Len(args[1]) = 31
    /\ request[1].len = 32 /\ result = Ok(args[1])

----------------------------------------------------------------------------
(* The gateway parameter of the command line.  A u32 is kept as two 16-bit *)
(* limbs so that its full width is there; text is a sequence of one-       *)
(* character strings.                                                      *)

Limb == 2 ^ 16
U32(n) == [hi |-> n \div Limb, lo |-> n % Limb]
U32Max == [hi |-> Limb - 1, lo |-> Limb - 1]

\* v * k for a small k, in full: top is what does not fit 32 bits
MulSmall(v, k) ==
    LET a == v.lo * k
        b == v.hi * k + a \div Limb
    IN  [top |-> b \div Limb, hi |-> b % Limb, lo |-> a % Limb]

\* v + d for a small d, in full
AddSmall(v, d) ==
    LET a == v.lo + d
        b == v.hi + a \div Limb
    IN  [top |-> b \div Limb, hi |-> b % Limb, lo |-> a % Limb]

\* v / k and v % k for a small k
DivSmall(v, k) ==
    [hi |-> v.hi \div k, lo |-> ((v.hi % k) * Limb + v.lo) \div k]
ModSmall(v, k) == ((v.hi % k) * Limb + v.lo) % k

Low32(w) == [hi |-> w.hi, lo |-> w.lo]

Digits == <<"0", "1", "2", "3", "4", "5", "6", "7", "8", "9">>
IsDigit(ch) == \E d \in 1..10 : Digits[d] = ch
DigitValue(ch) == (CHOOSE d \in 1..10 : Digits[d] = ch) - 1

\* u32::from_str on the digits left, v the value so far: checked_mul(10) and
\* checked_add(digit), an error on any other character
RECURSIVE ParseDigits(_, _)
ParseDigits(text, v) ==
    IF text = << >> THEN Ok(v)
    ELSE IF ~IsDigit(Head(text)) THEN ParseErr("InvalidDigit")
    ELSE LET m == MulSmall(v, 10)
             n == AddSmall(Low32(m), DigitValue(Head(text)))
         IN  IF m.top # 0 \/ n.top # 0 THEN ParseErr("PosOverflow")
             ELSE ParseDigits(Tail(text), Low32(n))

\* str::parse::<u32>: an optional "+", then at least one digit
parse_u32(text) ==
    IF text = << >> THEN ParseErr("Empty")
    ELSE LET digits == IF Head(text) = "+" THEN Tail(text) ELSE text
         IN  IF digits = << >> THEN ParseErr("InvalidDigit")
             ELSE ParseDigits(digits, U32(0))

\* str::to_lowercase on the letters a unit is written with
Lower(ch) ==
    CASE ch = "K" -> "k" [] ch = "M" -> "m" [] ch = "B" -> "b"
      [] ch = "I" -> "i" [] ch = "T" -> "t" [] OTHER -> ch
to_lowercase(text) == [i \in 1..Len(text) |-> Lower(text[i])]

\* str::trim on the blanks of a parameter
RECURSIVE TrimBlanks(_)
TrimBlanks(text) ==
    IF text # << >> /\ Head(text) = " " THEN TrimBlanks(Tail(text))
    ELSE IF text # << >> /\ text[Len(text)] = " "
    THEN TrimBlanks(SubSeq(text, 1, Len(text) - 1))
    ELSE text

ends_with(text, suffix) ==
    /\ Len(text) >= Len(suffix)
    /\ SubSeq(text, Len(text) - Len(suffix) + 1, Len(text)) = suffix

\* str::trim_end_matches: the suffix is taken off as often as it is there
RECURSIVE trim_end_matches(_, _)
trim_end_matches(text, suffix) ==
    IF ends_with(text, suffix)
    THEN trim_end_matches(SubSeq(text, 1, Len(text) - Len(suffix)), suffix)
    ELSE text

\* str::split('/'): the pieces between the slashes
RECURSIVE Split(_, _)
Split(text, piece) ==
    IF text = << >> THEN <<piece>>
    ELSE IF Head(text) = "/" THEN <<piece>> \o Split(Tail(text), << >>)
    ELSE Split(Tail(text), Append(piece, Head(text)))

Kbit == <<"k", "b", "i", "t">>
Mbit == <<"m", "b", "i", "t">>

Panic(w) == [ok |-> FALSE, kind |-> "Panic", what |-> w, code |-> 0, value |-> << >>]

\* the closure parse_value; val * 1000 that does not fit 32 bits panics in a
\* build with overflow checks and wraps in a build without
parse_value(text, checks) ==
    LET s == to_lowercase(TrimBlanks(text))
    IN  IF ends_with(s, Kbit) THEN parse_u32(trim_end_matches(s, Kbit))
        ELSE IF ends_with(s, Mbit)
        THEN LET val == parse_u32(trim_end_matches(s, Mbit))
             IN  IF ~val.ok THEN val
                 ELSE LET w == MulSmall(val.value, 1000)
                      IN  IF w.top # 0 /\ checks
                          THEN Panic("attempt to multiply with overflow")
                          ELSE Ok(Low32(w))
        ELSE parse_u32(s)

parse_gw_param(mode, param, checks) ==
    CASE mode = "Off" -> Ok(<<None, None, None>>)
      [] mode = "Client" ->
            LET sel_class == parse_u32(param)
            IN  IF sel_class.ok THEN Ok(<<None, None, Some(sel_class.value)>>)
                ELSE sel_class
      [] mode = "Server" ->
            LET parts == Split(param, << >>)
                down == parse_value(parts[1], checks)
            IN  IF ~down.ok THEN down
                ELSE IF Len(parts) >= 2
                THEN LET up == parse_value(parts[2], checks)
                     IN  IF ~up.ok THEN up
                         ELSE Ok(<<Some(down.value), Some(up.value), None>>)
                ELSE Ok(<<Some(down.value), Some(DivSmall(down.value, 5)), None>>)
      [] OTHER -> NotFoundErr("Unknown mode")

\* the decimal text of a u32, as a user writes it
RECURSIVE Decimal(_)
Decimal(v) ==
    IF v.hi = 0 /\ v.lo < 10 THEN <<Digits[v.lo + 1]>>
    ELSE Append(Decimal(DivSmall(v, 10)), Digits[ModSmall(v, 10) + 1])

\* the parameters the parser is run on: a number, then no unit or a unit in
\* some case, for down alone or for down and up
GwNumbers == {U32(0), U32(5), U32(250), U32(4294967), U32(4294968), U32Max}
GwUnits ==
    {<< >>, Kbit, <<"K", "B", "i", "t">>, Mbit, <<"M", "B", "i", "t">>}
GwParts == [n : GwNumbers, unit : GwUnits]
GwInputs == [down : GwParts, up : {None} \cup {Some(x) : x \in GwParts}]

PartText(x) == Decimal(x.n) \o x.unit
ParamText(inp) ==
    IF inp.up = None THEN PartText(inp.down)
    ELSE PartText(inp.down) \o <<"/">> \o PartText(inp.up[1])

\* parse_gw_param is called on text; written holds what the text was written from
ParseGw(mode, text, written, checks) ==
    /\ pc' = "done"
    /\ op' = "parse_gw_param"
    /\ args' = <<mode, text>>
    /\ before' = written
    /\ result' = parse_gw_param(mode, text, checks)
    /\ UNCHANGED <<links, response, pos, acc, lookups, request, reply>>

NextGw ==
    \/ /\ pc = "idle"
       /\ \E inp \in GwInputs : \E checks \in BOOLEAN :
             ParseGw("Server", ParamText(inp), inp, checks)
    \/ /\ pc = "idle"
       /\ \E mode \in {"Off", "Client", "Unknown"} :
             \E text \in {Decimal(n) : n \in GwNumbers} \cup {<<"x">>, << >>, <<"+", "7">>} :
                ParseGw(mode, text, << >>, TRUE)
    \/ Finish

SpecGw == Init /\ [][NextGw]_vars

----------------------------------------------------------------------------
(* Attribute objects: payloads cast to typed values, and the originator    *)
(* built from a map of such values.                                        *)

\* enum AttrValue: the variant, its number (in limbs) if it holds a number,
\* its bytes if it holds bytes or text
AttrU8(v) == [tag |-> "U8", num |-> U32(v), bytes |-> << >>]
AttrU16(v) == [tag |-> "U16", num |-> U32(v), bytes |-> << >>]
AttrU32(v) == [tag |-> "U32", num |-> v, bytes |-> << >>]
AttrString(s) == [tag |-> "String", num |-> U32(0), bytes |-> s]
AttrBytes(b) == [tag |-> "Bytes", num |-> U32(0), bytes |-> b]

\* u16::from_le_bytes and u32::from_le_bytes on the first bytes of data
LeU16(data) == data[1] + 256 * data[2]
LeU32(data) == [hi |-> data[3] + 256 * data[4], lo |-> data[1] + 256 * data[2]]

\* String::from_utf8(bytes).is_ok(): bytes is well-formed UTF-8
Cont(b) == b >= 128 /\ b <= 191
RECURSIVE Utf8(_)
Utf8(bytes) ==
    IF bytes = << >> THEN TRUE
    ELSE LET b == Head(bytes)
             n == Len(bytes)
         IN  IF b < 128 THEN Utf8(Tail(bytes))
             ELSE IF b >= 194 /\ b <= 223
             THEN n >= 2 /\ Cont(bytes[2]) /\ Utf8(SubSeq(bytes, 3, n))
             ELSE IF b >= 224 /\ b <= 239
             THEN /\ n >= 3 /\ Cont(bytes[2]) /\ Cont(bytes[3])
                  /\ (b = 224 => bytes[2] >= 160)
                  /\ (b = 237 => bytes[2] <= 159)
                  /\ Utf8(SubSeq(bytes, 4, n))
             ELSE IF b >= 240 /\ b <= 244
             THEN /\ n >= 4 /\ Cont(bytes[2]) /\ Cont(bytes[3]) /\ Cont(bytes[4])
                  /\ (b = 240 => bytes[2] >= 144)
                  /\ (b = 244 => bytes[2] <= 143)
                  /\ Utf8(SubSeq(bytes, 5, n))
             ELSE FALSE

\* auto_cast_value: the typed value guessed for a payload of unknown type
auto_cast_value(data) ==
    IF data = << >> THEN AttrBytes(data)
    ELSE IF /\ Len(data) > 1 /\ data[Len(data)] = 0
            /\ Utf8(SubSeq(data, 1, Len(data) - 1))
    THEN AttrString(SubSeq(data, 1, Len(data) - 1))
    ELSE IF Len(data) = 1 THEN AttrU8(data[1])
    ELSE IF Len(data) = 2 THEN AttrU16(LeU16(data))
    ELSE IF Len(data) = 4 THEN AttrU32(LeU32(data))
    ELSE AttrBytes(data)

\* Originator::try_from_attr_object: obj maps an attribute to None or to
\* Some(value)
try_from_attr_object(obj) ==
    IF obj.ORIG_ADDRESS = None THEN ParseErr("Missing ORIG_ADDRESS")
    ELSE LET mac_val == obj.ORIG_ADDRESS[1]
             mac_ok == \/ mac_val.tag = "Bytes" /\ Len(mac_val.bytes) >= 6
                       \/ mac_val.tag = "String" /\ Len(mac_val.bytes) = 6
             Num32(o) ==
                 IF o = None THEN None
                 ELSE IF o[1].tag = "U32" THEN Some(o[1].num)
                 ELSE IF o[1].tag = "Bytes" /\ Len(o[1].bytes) >= 4
                 THEN Some(LeU32(o[1].bytes))
                 ELSE None
             Num8(o) ==
                 IF o = None THEN None
                 ELSE IF o[1].tag = "U8" THEN Some(o[1].num.lo)
                 ELSE IF o[1].tag = "Bytes" /\ o[1].bytes # << >> THEN Some(o[1].bytes[1])
                 ELSE None
         IN  IF ~mac_ok THEN ParseErr("Invalid ORIG_ADDRESS")
             ELSE Ok([originator |-> SubSeq(mac_val.bytes, 1, 6),
                      last_seen_ms |-> Num32(obj.LAST_SEEN_MSECS),
                      tq |-> Num8(obj.TQ),
                      throughput |-> Num32(obj.THROUGHPUT),
                      is_router |-> obj.ROUTER # None])

\* the payloads the cast is run on
MaxData == 5
DataBytes == {0, 1, 98, 169, 195, 255}
Payloads == UNION {[1..n -> DataBytes] : n \in 0..MaxData}

\* the attribute objects the originator is built from
Mac6 == <<2, 170, 187, 204, 221, 238>>
AttrObjects ==
    [ORIG_ADDRESS : {None, Some(AttrBytes(Mac6)), Some(AttrBytes(<<2, 170>>)),
                     Some(AttrString(<<98, 97, 116, 48, 48, 48>>)), Some(AttrU8(2))},
     LAST_SEEN_MSECS : {None, Some(AttrU32(U32(420))), Some(AttrBytes(<<164, 1, 0, 0>>)),
                        Some(AttrU8(1))},
     TQ : {None, Some(AttrU8(255)), Some(AttrBytes(<<255>>)), Some(AttrU32(U32(255)))},
     THROUGHPUT : {None, Some(AttrU32(U32(123456)))},
     ROUTER : {None, Some(AttrBytes(Mac6))}]

AutoCast(data) ==
    /\ pc' = "done"
    /\ op' = "auto_cast_value"
    /\ args' = <<data>>
    /\ result' = Ok(auto_cast_value(data))
    /\ UNCHANGED <<links, response, pos, acc, lookups, request, reply, before>>

FromAttrObject(obj) ==
    /\ pc' = "done"
    /\ op' = "try_from_attr_object"
    /\ args' = <<obj>>
    /\ result' = try_from_attr_object(obj)
    /\ UNCHANGED <<links, response, pos, acc, lookups, request, reply, before>>

NextObject ==
    \/ /\ pc = "idle"
       /\ \E data \in Payloads \cup {<<98, 97, 116, 48, 0>>} : AutoCast(data)
    \/ /\ pc = "idle"
       /\ \E obj \in AttrObjects : FromAttrObject(obj)
    \/ Finish

SpecObject == Init /\ [][NextObject]_vars

----------------------------------------------------------------------------
(* The VLAN field of a translation-table entry, as the tables print it.    *)

\* a & b on unsigned integers of the given number of bits
RECURSIVE BitAnd(_, _, _)
BitAnd(a, b, bits) ==
    IF bits = 0 THEN 0
    ELSE (a % 2) * (b % 2) + 2 * BitAnd(a \div 2, b \div 2, bits - 1)

\* a version that keeps the low 15 bits of a tagged field
print_vid_Low15(vid) ==
    IF BitAnd(vid, 2 ^ 15, 16) # 0 THEN BitAnd(vid, 32767, 16) ELSE -1

print_vid(vid) ==
    IF BitAnd(vid, 2 ^ 15, 16) # 0 THEN BitAnd(vid, 4095, 16) ELSE -1

\* every u16
Vids == 0..(2 ^ 16 - 1)

PrintVid(vid) ==
    /\ pc = "idle"
    /\ pc' = "done"
    /\ op' = "print_vid"
    /\ args' = <<vid>>
    /\ result' = Ok(print_vid(vid))
    /\ UNCHANGED <<links, response, pos, acc, lookups, request, reply, before>>

NextVid ==
    \/ /\ pc = "idle"
       /\ \E vid \in Vids : PrintVid(vid)
    \/ Finish

SpecVid == Init /\ [][NextVid]_vars

\* C18: print_vid(v) is v & 0x0fff when bit 15 of v is set, and -1 when
\* bit 15 is clear, whatever the low bits are.
C18_VidOfTaggedField ==
    (pc = "done" /\ op = "print_vid")
        => result.value = IF args[1] >= 32768 THEN args[1] % 4096 ELSE -1

C18_Witness ==
    /\ pc = "done" /\ op = "print_vid"
    /\ args[1] = 32768 + 8192 + 5
    /\ result.value = 5

----------------------------------------------------------------------------
(* Properties of the dump loops (checked under Spec).                      *)

\* the entity the extractor of the running query makes of envelope i
EntityOf(i) == Extract(op, response[i].attrs, links).res.value

\* envelopes 1..n of the stream are rows of the dumped table
RowsUpTo(n) ==
    \A i \in 1..n : \E r \in 1..MaxRows : response[i] = Data(RowAttrs(op, r))

\* the result is Ok with the entities of envelopes 1..n, in arrival order
OkWithRows(n) ==
    /\ result.ok
    /\ Len(result.value) = n
    /\ \A i \in 1..n : result.value[i] = EntityOf(i)

\* C1: in every dump query, N well-formed DATA envelopes followed by an ERROR
\* envelope with code 0 give Ok with exactly the N entities, one per DATA
\* envelope in arrival order.
C1_ZeroErrorEndsDump ==
    (pc = "done" /\ op \in DumpOps)
        => \A n \in 0..(Len(response) - 1) :
              (RowsUpTo(n) /\ response[n + 1] = Error(0)) => OkWithRows(n)

C1_Witness ==
    /\ pc = "done" /\ op = "get_neighbors"
    /\ Len(response) = 3 /\ RowsUpTo(2) /\ response[3] = Error(0)
    /\ response[1] # response[2]
    /\ Len(result.value) = 2

\* C2: in every dump query, N well-formed DATA envelopes followed by an ERROR
\* envelope with a nonzero code give a Netlink error carrying that code, and
\* none of the N entities.
C2_NonzeroErrorDiscards ==
    (pc = "done" /\ op \in DumpOps)
        => \A n \in 0..(Len(response) - 1) : \A c \in ErrCodes :
              (RowsUpTo(n) /\ response[n + 1] = Error(c))
                  => /\ ~result.ok
                     /\ result.kind = "Netlink"
                     /\ result.code = c
                     /\ result.value = << >>

C2_Witness ==
    /\ pc = "done" /\ op = "get_translocal"
    /\ Len(response) = 3 /\ RowsUpTo(2) /\ response[3] = Error(19)
    /\ result.kind = "Netlink"

\* C3: in every dump query the first DONE envelope (or zero-code ERROR) ends
\* the loop with Ok of the entities pushed so far, and no envelope after it is
\* taken from the stream.
C3_TerminatorEndsLoop ==
    op \in DumpOps
        => \A i \in 1..pos :
              IsTerminator(response[i])
                  => /\ i = pos
                     /\ pc = "done"
                     /\ OkWithRows(i - 1)

C3_Witness ==
    /\ pc = "done" /\ op = "get_gateways_list"
    /\ Len(response) = 3 /\ pos = 2
    /\ response[2] = Done
    /\ response[3].type = "DATA"
    /\ Len(result.value) = 1

\* C4 as claimed: get_available_routing_algos stops at the first DONE or
\* zero-code ERROR envelope and returns a Netlink error carrying the code of
\* a nonzero ERROR envelope.
C4_AlgosFollowDumpRules ==
    op = AlgoOp
        => \A i \in 1..pos :
              /\ IsTerminator(response[i]) => (i = pos /\ pc = "done")
              /\ (response[i].type = "ERROR" /\ response[i].code # 0)
                    => (pc = "done" /\ result.kind = "Netlink"
                            /\ result.code = response[i].code)

\* the requests the running query has sent so far
Requests == RequestsOf(op, args[1], links, lookups)

\* C22 as claimed: a query sends exactly one request while it serves a call.
C22_OneRequestPerCall ==
    (pc = "done" /\ op \in DumpOps \cup {AlgoOp}) => Len(Requests) = 1

\* what does hold: a query sends exactly one request to batman-adv once the
\* mesh interface is resolved, and every other request is a link dump
C22_OneBatadvRequestPerCall ==
    (pc = "done" /\ op \in DumpOps \cup {AlgoOp} /\ Preamble(op, args[1], links).ok)
        => /\ Len(SelectSeq(Requests, LAMBDA r : r.family = "batadv")) = 1
           /\ \A i \in 1..Len(Requests) :
                 Requests[i].family = "route" => Requests[i] = GetlinkDump

\* C27 as claimed: the dump request get_neighbors sends carries the command
\* code of BatadvCmdGetNeighbors.
C27_NeighborsSendsGetNeighbors ==
    (pc \in {"loop", "done"} /\ op = "get_neighbors"
         /\ Preamble(op, args[1], links).ok)
        => \E i \in 1..Len(Requests) :
              /\ Requests[i].family = "batadv"
              /\ Requests[i].cmd = Command.BatadvCmdGetNeighbors

\* the reply of the finished query holds no DATA envelope and starts with a
\* DONE envelope or an ERROR envelope of code 0
EmptyDump ==
    /\ pc = "done"
    /\ Len(response) >= 1
    /\ response[1] \in {Done, Error(0)}
    /\ \A i \in 1..Len(response) : response[i].type # "DATA"

\* C20 as claimed: every dump-style query, get_available_routing_algos
\* included, returns Ok with an empty collection when the reply holds no DATA
\* envelope and starts with DONE or a zero-code ERROR.
C20_EmptyDumpIsOkEmpty ==
    (EmptyDump /\ op \in DumpOps \cup {AlgoOp}) => result = Ok(<< >>)

\* the same for the queries that share the dump loop, which does hold
C20_EmptyDumpOfDumpOps ==
    (EmptyDump /\ op \in DumpOps) => result = Ok(<< >>)

----------------------------------------------------------------------------
(* Single envelopes with every combination of the attributes an extractor  *)
(* reads, absent or present, to exercise the extractors.                   *)

MacOpt == {Absent, Attr(6, 1)}
NumOpt(width) == {Absent, Attr(width, 0), Attr(width, 7)}
ZeroOpt(width) == {Absent, Attr(width, 0)}
\* a flag attribute: absent, present without payload, present with one byte
FlagOpt == {Absent, FlagAttr, Attr(1, 1)}
NameOpt == {Absent, IfnameField, IfnameShort}
\* the index of eth0, and an index that no link of MeshLinks has
IndexOpt == {Absent, Attr(4, 2), Attr(4, 3)}

RichAttrs(o) ==
    CASE o = "get_originators" ->
            {[NoAttrs EXCEPT !.ORIG_ADDRESS = a, !.NEIGH_ADDRESS = b,
                             !.HARD_IFNAME = c, !.HARD_IFINDEX = d,
                             !.LAST_SEEN_MSECS = e, !.TQ = f, !.THROUGHPUT = g,
                             !.ROUTER = h, !.FLAG_BEST = i] :
                a \in MacOpt, b \in MacOpt, c \in NameOpt, d \in IndexOpt,
                e \in {Absent, Attr(4, 100)}, f \in NumOpt(1), g \in ZeroOpt(4),
                h \in MacOpt, i \in FlagOpt}
      [] o = "get_neighbors" ->
            {[NoAttrs EXCEPT !.NEIGH_ADDRESS = a, !.LAST_SEEN_MSECS = b,
                             !.HARD_IFNAME = c, !.HARD_IFINDEX = d,
                             !.THROUGHPUT = e] :
                a \in MacOpt, b \in {Absent, Attr(4, 100)}, c \in NameOpt,
                d \in IndexOpt, e \in NumOpt(4)}
      [] o = "get_gateways_list" ->
            {[NoAttrs EXCEPT !.FLAG_BEST = a, !.ORIG_ADDRESS = b, !.ROUTER = c,
                             !.HARD_IFNAME = d, !.HARD_IFINDEX = e,
                             !.BANDWIDTH_DOWN = f, !.BANDWIDTH_UP = g,
                             !.THROUGHPUT = h, !.TQ = i] :
                a \in FlagOpt, b \in MacOpt, c \in MacOpt, d \in NameOpt,
                e \in IndexOpt, f \in NumOpt(4), g \in ZeroOpt(4),
                h \in ZeroOpt(4), i \in ZeroOpt(1)}
      [] o = "get_interfaces" ->
            {[NoAttrs EXCEPT !.HARD_IFINDEX = a, !.HARD_IFNAME = b, !.ACTIVE = c] :
                a \in IndexOpt, b \in NameOpt, c \in FlagOpt}
      [] o = "get_transglobal" ->
            {[NoAttrs EXCEPT !.TT_ADDRESS = a, !.ORIG_ADDRESS = b, !.TT_VID = c,
                             !.TT_TTVN = d, !.TT_LAST_TTVN = e, !.TT_CRC32 = f,
                             !.TT_FLAGS = g, !.FLAG_BEST = h] :
                a \in MacOpt, b \in MacOpt, c \in {Absent, Attr(2, 32773)},
                d \in {Absent, Attr(1, 3)}, e \in {Absent, Attr(1, 2)},
                f \in {Absent, Attr(4, 7)}, g \in {Absent, Attr(4, 4099)},
                h \in FlagOpt}
      [] o = "get_translocal" ->
            {[NoAttrs EXCEPT !.TT_ADDRESS = a, !.TT_VID = b, !.TT_CRC32 = c,
                             !.TT_FLAGS = d, !.LAST_SEEN_MSECS = e] :
                a \in MacOpt, b \in {Absent, Attr(2, 32773)},
                c \in {Absent, Attr(4, 7)}, d \in {Absent, Attr(4, 4099)},
                e \in {Absent, Attr(4, 0), Attr(4, 1500)}}
      [] o = AlgoOp ->
            {[NoAttrs EXCEPT !.ALGO_NAME = a] :
                a \in {Absent, Attr(32, <<66, 65, 0>>), Attr(3, <<66, 65, 86>>)}}

\* streams that end in one such envelope, alone or after a row of the table
RichStreams(o) ==
    LET last == {Data(attrs) : attrs \in RichAttrs(o)} \cup {DataEmpty, ErrorUnknown}
    IN  {<<env>> : env \in last} \cup {<<Data(RowAttrs(o, 1)), env>> : env \in last}

NextExtract ==
    \/ /\ pc = "idle"
       /\ \E o \in DumpOps \cup {AlgoOp} :
             \E stream \in RichStreams(o) : Call(o, Bat0, stream)
    \/ Step
    \/ Finish

SpecExtract == Init /\ [][NextExtract]_vars

----------------------------------------------------------------------------
(* The link operations and the mesh setters. Each sends one request with   *)
(* the ACK flag and returns; the kernel handles the request inside the     *)
(* send and queues its acknowledgement (an ERROR envelope, code 0 for      *)
(* success) on the socket.                                                 *)

Bat1 == <<98, 97, 116, 49>>

\* a link table with the mesh interface bat0 and the hard interfaces
LinkTable ==
    [i \in 1..MaxLinks |->
        [name |-> LinkNameOf(i), master |-> 0, kind |-> LinkKindOf(i),
         mesh |-> DefaultMesh]]

\* link indices the kernel hands out
LinkIndices == 1..(MaxLinks + 1)

\* a loop that counts every link, attached or not
RECURSIVE CountLoop_All(_, _)
CountLoop_All(dump, mesh_ifindex) ==
    IF dump = << >> THEN 0 ELSE 1 + CountLoop_All(Tail(dump), mesh_ifindex)

\* the loop of count_interfaces over a Getlink dump
RECURSIVE CountLoop(_, _)
CountLoop(dump, mesh_ifindex) ==
    IF dump = << >> THEN 0
    ELSE (IF /\ Head(dump).MASTER # Absent
             /\ Head(dump).MASTER[1].len >= 4
             /\ Head(dump).MASTER[1].val = mesh_ifindex
          THEN 1 ELSE 0) + CountLoop(Tail(dump), mesh_ifindex)

CountAttached(lnk, mesh_ifindex) == CountLoop(LinkDump(lnk), mesh_ifindex)

Outcome(lnk, c) == [links |-> lnk, code |-> c]
Rejections(lnk) == {Outcome(lnk, c) : c \in ErrCodes}

\* RTM_SETLINK with IFLA_MASTER: enslave to a batadv link, or release (0)
KernelSetlink(lnk, req) ==
    Rejections(lnk) \cup
    IF /\ req.index \in DOMAIN lnk
       /\ lnk[req.index].kind # "batadv"
       /\ \/ req.master = 0
          \/ req.master \in DOMAIN lnk /\ lnk[req.master].kind = "batadv"
    THEN {Outcome([lnk EXCEPT ![req.index].master = req.master], 0)}
    ELSE {}

\* the index the kernel gives a new link: the lowest one not in use
FreeIndex(lnk) ==
    {i \in LinkIndices \ DOMAIN lnk : \A j \in LinkIndices \ DOMAIN lnk : i <= j}

\* RTM_NEWLINK with CREATE | EXCL: a new batadv link under an unused name
KernelNewlink(lnk, req) ==
    Rejections(lnk) \cup
    IF \E i \in DOMAIN lnk : lnk[i].name = req.ifname
    THEN {}
    ELSE {Outcome([j \in DOMAIN lnk \cup {i} |->
                      IF j = i
                      THEN [name |-> req.ifname, master |-> 0, kind |-> req.kind,
                            mesh |-> DefaultMesh]
                      ELSE lnk[j]], 0) : i \in FreeIndex(lnk)}

\* RTM_DELLINK by name: the link goes, and its slaves are released
KernelDellink(lnk, req) ==
    Rejections(lnk) \cup
    {Outcome([j \in DOMAIN lnk \ {i} |->
                 [lnk[j] EXCEPT !.master = IF @ = i THEN 0 ELSE @]], 0) :
        i \in {k \in DOMAIN lnk : lnk[k].name = req.ifname /\ lnk[k].kind = "batadv"}}

\* the mesh parameters after the attributes of a SET_MESH request are applied
ApplyMesh(mesh, attrs) ==
    [mesh EXCEPT
        !.aggregated_ogms =
            IF "AGGREGATED_OGMS_ENABLED" \in DOMAIN attrs
            THEN attrs.AGGREGATED_OGMS_ENABLED # 0 ELSE @,
        !.bridge_loop_avoidance =
            IF "BRIDGE_LOOP_AVOIDANCE_ENABLED" \in DOMAIN attrs
            THEN attrs.BRIDGE_LOOP_AVOIDANCE_ENABLED # 0 ELSE @,
        !.gw_mode = IF "GW_MODE" \in DOMAIN attrs THEN attrs.GW_MODE ELSE @]

\* BATADV_CMD_SET_MESH on a batadv link
KernelSetMesh(lnk, req) ==
    Rejections(lnk) \cup
    IF /\ req.attrs.MESH_IFINDEX \in DOMAIN lnk
       /\ lnk[req.attrs.MESH_IFINDEX].kind = "batadv"
    THEN {Outcome([lnk EXCEPT ![req.attrs.MESH_IFINDEX].mesh =
                                  ApplyMesh(@, req.attrs)], 0)}
    ELSE {}

\* the operation returns err before it sends anything
Refused(o, a, err) ==
    /\ pc' = "done"
    /\ op' = o
    /\ args' = a
    /\ result' = err
    /\ before' = links
    /\ UNCHANGED <<links, response, pos, acc, lookups, request, reply>>

\* the operation sends req, the kernel handles it with outcome out, and the
\* operation returns Ok(()) without reading the acknowledgement
Sent(o, a, req, out) ==
    /\ pc' = "done"
    /\ op' = o
    /\ args' = a
    /\ request' = req
    /\ links' = out.links
    /\ reply' = <<Error(out.code)>>
    /\ result' = Ok(<< >>)
    /\ before' = links
    /\ UNCHANGED <<response, pos, acc, lookups>>

count_interfaces(mesh_if) ==
    /\ pc = "idle"
    /\ pc' = "done"
    /\ op' = "count_interfaces"
    /\ args' = <<mesh_if>>
    /\ LET r == if_nametoindex(links, mesh_if)
       IN  result' = IF r.ok THEN Ok(CountAttached(links, r.value))
                     ELSE NetlinkErr("ifindex", 0)
    /\ before' = links
    /\ UNCHANGED <<links, response, pos, acc, lookups, request, reply>>

\* a set_interface that takes index 0 for a mesh interface it cannot resolve
set_interface_MasterOrZero(iface, mesh_if) ==
    /\ pc = "idle"
    /\ LET a == <<iface, mesh_if>>
           i == if_nametoindex(links, iface)
           r == IF mesh_if = None THEN Ok(0) ELSE if_nametoindex(links, mesh_if[1])
           m == IF r.ok THEN r ELSE Ok(0)
       IN  IF ~i.ok
           THEN Refused("set_interface", a, NetlinkErr("ifindex", 0))
           ELSE /\ pc' = "resolved"
                /\ op' = "set_interface"
                /\ args' = a
                /\ request' = [cmd |-> "Setlink", flags |-> {"REQUEST", "ACK"},
                               index |-> i.value, master |-> m.value]
                /\ before' = links
                /\ UNCHANGED <<links, response, pos, acc, lookups, result, reply>>

\* set_interface up to the built message: the two name resolutions, each a
\* link dump of its own, come before the connection that carries the request
set_interface(iface, mesh_if) ==
    /\ pc = "idle"
    /\ LET a == <<iface, mesh_if>>
           i == if_nametoindex(links, iface)
           m == IF mesh_if = None THEN Ok(0) ELSE if_nametoindex(links, mesh_if[1])
       IN  IF ~i.ok \/ ~m.ok
           THEN Refused("set_interface", a, NetlinkErr("ifindex", 0))
           ELSE /\ pc' = "resolved"
                /\ op' = "set_interface"
                /\ args' = a
                /\ request' = [cmd |-> "Setlink", flags |-> {"REQUEST", "ACK"},
                               index |-> i.value, master |-> m.value]
                /\ before' = links
                /\ UNCHANGED <<links, response, pos, acc, lookups, result, reply>>

\* another actor removes the link that the built request names
LinkDisappears ==
    /\ pc = "resolved"
    /\ request.index \in DOMAIN links
    /\ links' = [j \in DOMAIN links \ {request.index} |->
                    [links[j] EXCEPT !.master = IF @ = request.index THEN 0 ELSE @]]
    /\ UNCHANGED <<pc, op, args, response, pos, acc, lookups, result, request,
                   reply, before>>

\* set_interface from rtnl.send on: the kernel handles the request, and the
\* operation returns Ok(()) without reading the acknowledgement
set_interface_send ==
    /\ pc = "resolved"
    /\ \E out \in KernelSetlink(links, request) :
          /\ links' = out.links
          /\ reply' = <<Error(out.code)>>
    /\ pc' = "done"
    /\ result' = Ok(<< >>)
    /\ UNCHANGED <<op, args, response, pos, acc, lookups, request, before>>

create_interface(mesh_if, routing_algo) ==
    /\ pc = "idle"
    /\ LET req == [cmd |-> "Newlink", flags |-> {"REQUEST", "CREATE", "EXCL", "ACK"},
                   ifname |-> mesh_if, kind |-> "batadv", algo |-> routing_algo]
       IN  \E out \in KernelNewlink(links, req) :
              Sent("create_interface", <<mesh_if, routing_algo>>, req, out)

destroy_interface(mesh_if) ==
    /\ pc = "idle"
    /\ LET req == [cmd |-> "Dellink", flags |-> {"REQUEST", "ACK"}, ifname |-> mesh_if]
       IN  \E out \in KernelDellink(links, req) :
              Sent("destroy_interface", <<mesh_if>>, req, out)

unwrap_or(opt, default) == IF opt = None THEN default ELSE opt[1]

\* the attributes set_gateway adds for each mode
GatewayAttrs(mode, down, up, sel_class, ifindex) ==
    CASE mode = "Off" -> [MESH_IFINDEX |-> ifindex, GW_MODE |-> 0]
      [] mode = "Client" -> [MESH_IFINDEX |-> ifindex, GW_MODE |-> 1]
      [] mode = "Server" ->
            [MESH_IFINDEX |-> ifindex, GW_MODE |-> 2,
             GW_BANDWIDTH_DOWN |-> unwrap_or(down, 10000) \div 100,
             GW_BANDWIDTH_UP |-> unwrap_or(up, 2000) \div 100,
             GW_SEL_CLASS |-> unwrap_or(sel_class, 0)]

\* a set_gateway that sends the unknown mode as the mode off
set_gateway_UnknownAsOff(mode, down, up, sel_class, mesh_if) ==
    /\ pc = "idle"
    /\ LET a == <<mode, down, up, sel_class, mesh_if>>
           r == if_nametoindex(links, mesh_if)
       IN  IF ~r.ok
           THEN Refused("set_gateway", a, NetlinkErr("interface is not present", 0))
           ELSE LET req == [cmd |-> "SetMesh", flags |-> {"REQUEST", "ACK"},
                            attrs |-> IF mode = "Unknown"
                                      THEN [MESH_IFINDEX |-> r.value, GW_MODE |-> 0]
                                      ELSE GatewayAttrs(mode, down, up, sel_class,
                                                        r.value)]
                IN  \E out \in KernelSetMesh(links, req) :
                       Sent("set_gateway", a, req, out)

set_gateway(mode, down, up, sel_class, mesh_if) ==
    /\ pc = "idle"
    /\ LET a == <<mode, down, up, sel_class, mesh_if>>
           r == if_nametoindex(links, mesh_if)
       IN  IF ~r.ok
           THEN Refused("set_gateway", a, NetlinkErr("interface is not present", 0))
           ELSE IF mode = "Unknown"
           THEN Refused("set_gateway", a, ParseErr("Cannot set unknown gateway mode"))
           ELSE LET req == [cmd |-> "SetMesh", flags |-> {"REQUEST", "ACK"},
                            attrs |-> GatewayAttrs(mode, down, up, sel_class, r.value)]
                IN  \E out \in KernelSetMesh(links, req) :
                       Sent("set_gateway", a, req, out)

set_aggregation(mesh_if, enabled) ==
    /\ pc = "idle"
    /\ LET a == <<mesh_if, enabled>>
           r == if_nametoindex(links, mesh_if)
       IN  IF ~r.ok
           THEN Refused("set_aggregation", a, NetlinkErr("ifindex", 0))
           ELSE LET req == [cmd |-> "SetMesh", flags |-> {"REQUEST", "ACK"},
                            attrs |-> [MESH_IFINDEX |-> r.value,
                                       AGGREGATED_OGMS_ENABLED |->
                                           IF enabled THEN 1 ELSE 0]]
                IN  \E out \in KernelSetMesh(links, req) :
                       Sent("set_aggregation", a, req, out)

set_bridge_loop_avoidance(mesh_if, enabled) ==
    /\ pc = "idle"
    /\ LET a == <<mesh_if, enabled>>
           r == if_nametoindex(links, mesh_if)
       IN  IF ~r.ok
           THEN Refused("set_bridge_loop_avoidance", a, NetlinkErr("ifindex", 0))
           ELSE LET req == [cmd |-> "SetMesh", flags |-> {"REQUEST", "ACK"},
                            attrs |-> [MESH_IFINDEX |-> r.value,
                                       BRIDGE_LOOP_AVOIDANCE_ENABLED |->
                                           IF enabled THEN 1 ELSE 0]]
                IN  \E out \in KernelSetMesh(links, req) :
                       Sent("set_bridge_loop_avoidance", a, req, out)

\* the reply of BATADV_CMD_GET_MESH_INFO for a batadv link: one message
MeshInfo(mesh) ==
    [AGGREGATED_OGMS_ENABLED |-> Attr(1, IF mesh.aggregated_ogms THEN 1 ELSE 0),
     AP_ISOLATION_ENABLED |-> Attr(1, IF mesh.ap_isolation THEN 1 ELSE 0),
     BRIDGE_LOOP_AVOIDANCE_ENABLED |->
         Attr(1, IF mesh.bridge_loop_avoidance THEN 1 ELSE 0)]

KernelGetMeshInfo(lnk, ifindex) ==
    {<<Error(c)>> : c \in ErrCodes} \cup
    IF ifindex \in DOMAIN lnk /\ lnk[ifindex].kind = "batadv"
    THEN {<<Data(MeshInfo(lnk[ifindex].mesh))>>}
    ELSE {}

\* the loop of a boolean getter: the first byte of the first attribute a
RECURSIVE FirstBool(_, _)
FirstBool(stream, a) ==
    IF stream = << >> THEN NotFoundErr("attribute not found")
    ELSE LET env == Head(stream)
         IN  IF /\ env.payload = "Payload"
                /\ a \in DOMAIN env.attrs
                /\ ReadsAs(env.attrs, a, 1)
             THEN Ok(PayloadOf(env.attrs, a) # 0)
             ELSE FirstBool(Tail(stream), a)

\* a boolean getter over generic netlink, reading attribute a
GetMeshBool(o, mesh_if, a) ==
    /\ pc = "idle"
    /\ pc' = "done"
    /\ op' = o
    /\ args' = <<mesh_if>>
    /\ before' = links
    /\ LET r == if_nametoindex(links, mesh_if)
       IN  IF ~r.ok
           THEN /\ result' = NetlinkErr("interface is not present", 0)
                /\ UNCHANGED response
           ELSE \E stream \in KernelGetMeshInfo(links, r.value) :
                   /\ response' = stream
                   /\ result' = FirstBool(stream, a)
    /\ UNCHANGED <<links, pos, acc, lookups, request, reply>>

get_aggregation(mesh_if) ==
    GetMeshBool("get_aggregation", mesh_if, "AGGREGATED_OGMS_ENABLED")

get_bridge_loop_avoidance(mesh_if) ==
    GetMeshBool("get_bridge_loop_avoidance", mesh_if, "BRIDGE_LOOP_AVOIDANCE_ENABLED")

IoErr(w) == [ok |-> FALSE, kind |-> "Io", what |-> w, code |-> 0, value |-> << >>]

\* str::trim on a byte string: whitespace off both ends
Whitespace == {9, 10, 13, 32}
RECURSIVE TrimStart(_)
TrimStart(text) ==
    IF text # << >> /\ Head(text) \in Whitespace THEN TrimStart(Tail(text)) ELSE text
RECURSIVE TrimEnd(_)
TrimEnd(text) ==
    IF text # << >> /\ text[Len(text)] \in Whitespace
    THEN TrimEnd(SubSeq(text, 1, Len(text) - 1)) ELSE text
Trim(text) == TrimEnd(TrimStart(text))

\* the texts the kernel shows for a boolean parameter file under
\* /sys/class/net/<mesh_if>/mesh/: a digit, or a word, and a newline
SysfsShow(b) ==
    IF b THEN {<<49, 10>>, <<101, 110, 97, 98, 108, 101, 100, 10>>}
    ELSE {<<48, 10>>, <<100, 105, 115, 97, 98, 108, 101, 100, 10>>}

\* the parameter files of mesh_if exist
SysfsPresent(lnk, mesh_if) ==
    \E i \in DOMAIN lnk : lnk[i].name = mesh_if /\ lnk[i].kind = "batadv"

\* the results fs::read_to_string can give read_mesh_bool for ap_isolation
read_mesh_bool(lnk, mesh_if) ==
    {IoErr("read")} \cup
    IF SysfsPresent(lnk, mesh_if)
    THEN {Ok(Trim(text) = <<49>>) :
            text \in SysfsShow(lnk[if_nametoindex(lnk, mesh_if).value].mesh.ap_isolation)}
    ELSE {}

\* the outcomes of fs::write of "1" or "0" in write_mesh_bool for ap_isolation
write_mesh_bool(lnk, mesh_if, value) ==
    {[links |-> lnk, res |-> IoErr("write")]} \cup
    IF SysfsPresent(lnk, mesh_if)
    THEN {[links |-> [lnk EXCEPT ![if_nametoindex(lnk, mesh_if).value].mesh.ap_isolation
                                     = value],
           res |-> Ok(<< >>)]}
    ELSE {}

get_ap_isolation(mesh_if) ==
    /\ pc = "idle"
    /\ pc' = "done"
    /\ op' = "get_ap_isolation"
    /\ args' = <<mesh_if>>
    /\ before' = links
    /\ result' \in read_mesh_bool(links, mesh_if)
    /\ UNCHANGED <<links, response, pos, acc, lookups, request, reply>>

set_ap_isolation(mesh_if, val) ==
    /\ pc = "idle"
    /\ pc' = "done"
    /\ op' = "set_ap_isolation"
    /\ args' = <<mesh_if, val>>
    /\ before' = links
    /\ \E out \in write_mesh_bool(links, mesh_if, val) :
          /\ links' = out.links
          /\ result' = out.res
    /\ UNCHANGED <<response, pos, acc, lookups, request, reply>>

\* the replies to BATADV_CMD_GET_MESH_INFO that the single-reply queries are
\* run on: none, an ERROR envelope, or one message with any of the gateway
\* attributes absent or present
BatmanV == <<66, 65, 84, 77, 65, 78, 95, 86>>
GwInfoAttrs ==
    {[GW_MODE |-> a, GW_SEL_CLASS |-> b, GW_BANDWIDTH_DOWN |-> c,
      GW_BANDWIDTH_UP |-> d, ALGO_NAME |-> e] :
        a \in {Absent, Attr(1, 0), Attr(1, 1), Attr(1, 2), Attr(1, 7)},
        b \in {Absent, Attr(4, 3)}, c \in {Absent, Attr(4, 100)},
        d \in {Absent, Attr(4, 20)},
        e \in {Absent, Attr(Len(BatmanV) + 1, BatmanV \o <<0>>)}}
MeshInfoReplies ==
    {<< >>, <<Error(5)>>} \cup {<<Data(attrs)>> : attrs \in GwInfoAttrs}

\* get_gateway from response.next() on
GatewayInfoOf(stream) ==
    IF stream = << >> THEN ParseErr("no response from kernel")
    ELSE IF stream[1].payload # "Payload" THEN ParseErr("message has no payload")
    ELSE LET attrs == stream[1].attrs
             mode == IF ~ReadsAs(attrs, "GW_MODE", 1) THEN "Unknown"
                     ELSE IF PayloadOf(attrs, "GW_MODE") = 0 THEN "Off"
                     ELSE IF PayloadOf(attrs, "GW_MODE") = 1 THEN "Client"
                     ELSE IF PayloadOf(attrs, "GW_MODE") = 2 THEN "Server"
                     ELSE "Unknown"
         IN  IF ~ReadsAs(attrs, "GW_SEL_CLASS", 4)
             THEN ParseErr("gateway selection class missing")
             ELSE IF ~ReadsAs(attrs, "GW_BANDWIDTH_DOWN", 4)
             THEN ParseErr("gateway downstream bandwidth missing")
             ELSE IF ~ReadsAs(attrs, "GW_BANDWIDTH_UP", 4)
             THEN ParseErr("gateway upstream bandwidth missing")
             ELSE IF ~HasAttr(attrs, "ALGO_NAME")
             THEN ParseErr("routing algorithm name missing")
             ELSE Ok([mode |-> mode,
                      sel_class |-> PayloadOf(attrs, "GW_SEL_CLASS"),
                      bandwidth_down |-> PayloadOf(attrs, "GW_BANDWIDTH_DOWN"),
                      bandwidth_up |-> PayloadOf(attrs, "GW_BANDWIDTH_UP"),
                      algo |-> TrimNul(PayloadOf(attrs, "ALGO_NAME"))])

\* the loop of get_algoname_netlink
RECURSIVE FirstAlgoName(_)
FirstAlgoName(stream) ==
    IF stream = << >> THEN NotFoundErr("No routing algorithm found")
    ELSE IF Head(stream).payload = "Payload" /\ HasAttr(Head(stream).attrs, "ALGO_NAME")
    THEN Ok(TrimNul(PayloadOf(Head(stream).attrs, "ALGO_NAME")))
    ELSE FirstAlgoName(Tail(stream))

\* a query that sends GET_MESH_INFO for mesh_if and reads the reply with f
MeshInfoQuery(o, mesh_if, stream, res) ==
    /\ pc = "idle"
    /\ pc' = "done"
    /\ op' = o
    /\ args' = <<mesh_if>>
    /\ before' = links
    /\ IF ~if_nametoindex(links, mesh_if).ok
       THEN /\ result' = NetlinkErr("interface is not present", 0)
            /\ UNCHANGED response
       ELSE /\ response' = stream
            /\ result' = res
    /\ UNCHANGED <<links, pos, acc, lookups, request, reply>>

get_gateway(mesh_if, stream) ==
    MeshInfoQuery("get_gateway", mesh_if, stream, GatewayInfoOf(stream))

get_algoname_netlink(mesh_if, stream) ==
    MeshInfoQuery("get_algoname_netlink", mesh_if, stream, FirstAlgoName(stream))

\* a caller resolves a name or an index
ResolveName(ifname) ==
    /\ pc = "idle"
    /\ pc' = "done"
    /\ op' = "if_nametoindex"
    /\ args' = <<ifname>>
    /\ result' = if_nametoindex(links, ifname)
    /\ before' = links
    /\ UNCHANGED <<links, response, pos, acc, lookups, request, reply>>

ResolveIndex(ifindex) ==
    /\ pc = "idle"
    /\ pc' = "done"
    /\ op' = "if_indextoname"
    /\ args' = <<ifindex>>
    /\ result' = if_indextoname(links, ifindex)
    /\ before' = links
    /\ UNCHANGED <<links, response, pos, acc, lookups, request, reply>>

\* the first three bytes of bat0 and bat1
BatPrefix == <<98, 97, 116>>

MutationOps ==
    {"set_interface", "create_interface", "destroy_interface", "set_gateway",
     "set_aggregation", "set_bridge_loop_avoidance"}

\* names the callers pass
HardNames == {LinkNameOf(i) : i \in 2..MaxLinks}
MeshNames == {Bat0, Bat1}
GwModes == {"Off", "Client", "Server", "Unknown"}
\* down, up and sel_class as callers pass them
GwParams ==
    {<<None, None, None>>, <<Some(250), None, Some(3)>>, <<Some(250), Some(1000), None>>}

InitLink ==
    /\ links = LinkTable
    /\ Idle

NextLink ==
    \/ \E n \in HardNames \cup MeshNames \cup {BatPrefix} : ResolveName(n)
    \/ \E i \in LinkIndices : ResolveIndex(i)
    \/ \E m \in MeshNames : count_interfaces(m)
    \/ /\ pc = "idle"
       /\ \E m \in MeshNames : \E stream \in MeshInfoReplies : get_gateway(m, stream)
    \/ /\ pc = "idle"
       /\ \E m \in MeshNames : \E stream \in MeshInfoReplies :
             get_algoname_netlink(m, stream)
    \/ \E m \in MeshNames : get_aggregation(m)
    \/ \E m \in MeshNames : get_bridge_loop_avoidance(m)
    \/ /\ pc = "idle"
       /\ \E o \in {"get_neighbors", "get_interfaces"} : \E m \in MeshNames :
             CallFails(o, m)
    \/ \E iface \in HardNames \cup {Bat1} :
          \E m \in {None} \cup {Some(n) : n \in MeshNames} : set_interface(iface, m)
    \/ LinkDisappears
    \/ set_interface_send
    \/ \E m \in MeshNames : \E algo \in {None, Some("BATMAN_V")} : create_interface(m, algo)
    \/ \E m \in MeshNames : destroy_interface(m)
    \/ \E mode \in GwModes : \E p \in GwParams : \E m \in MeshNames :
          set_gateway(mode, p[1], p[2], p[3], m)
    \/ \E m \in MeshNames : set_aggregation(m, TRUE)
    \/ \E m \in MeshNames : set_bridge_loop_avoidance(m, TRUE)
    \/ Finish

SpecLink == InitLink /\ [][NextLink]_vars

\* the boolean mesh parameters, set and read back over both transports
NextMesh ==
    \/ \E m \in MeshNames : \E enabled \in BOOLEAN : set_aggregation(m, enabled)
    \/ \E m \in MeshNames : \E enabled \in BOOLEAN : set_bridge_loop_avoidance(m, enabled)
    \/ \E m \in MeshNames : \E val \in BOOLEAN : set_ap_isolation(m, val)
    \/ \E m \in MeshNames : get_aggregation(m)
    \/ \E m \in MeshNames : get_bridge_loop_avoidance(m)
    \/ \E m \in MeshNames : get_ap_isolation(m)
    \/ Finish

SpecMesh == InitLink /\ [][NextMesh]_vars

----------------------------------------------------------------------------
(* The routing algorithm of every mesh interface.  Under SpecAlgos         *)
(* response holds the link dump, request the names the algorithm was asked *)
(* for and reply the kernel's replies to those queries, in order.          *)

\* get_algoname_netlink as a function of the link table and the reply
AlgoNameOf(lnk, mesh_if, stream) ==
    IF ~if_nametoindex(lnk, mesh_if).ok
    THEN NetlinkErr("interface is not present", 0)
    ELSE FirstAlgoName(stream)

\* a test that takes every link that has a kind
IsMesh_AnyKind(msg) == msg.IFNAME # Absent /\ msg.KIND # Absent

\* the tests of the loop body that let a link through: a name, a kind, and
\* the kind is "batadv"
IsMesh(msg) ==
    /\ msg.IFNAME # Absent
    /\ msg.KIND # Absent
    /\ StringOf(msg.KIND) = Batadv

\* the kernel's replies to the algorithm query for a mesh interface
BatmanIV == <<66, 65, 84, 77, 65, 78, 95, 73, 86>>
AlgoReplies ==
    {<<Data([NoAttrs EXCEPT !.ALGO_NAME = Attr(Len(a) + 1, a \o <<0>>)])>> :
        a \in {BatmanIV, BatmanV}} \cup {<<Error(19)>>}

\* link tables of up to MaxLinks links of any kind
AlgoTables ==
    UNION {[1..n -> {[name |-> LinkNameOf(i), master |-> 0, kind |-> k,
                      mesh |-> DefaultMesh] :
                        i \in 1..n, k \in {"batadv", "ether", "bridge"}}] :
              n \in 0..MaxLinks}

InitAlgos ==
    /\ links \in {t \in AlgoTables : \A i \in DOMAIN t : t[i].name = LinkNameOf(i)}
    /\ Idle

\* get_active_routing_algos sends the link dump
ActiveCall ==
    /\ pc = "idle"
    /\ pc' = "loop"
    /\ op' = "get_active_routing_algos"
    /\ response' = LinkDump(links)
    /\ UNCHANGED <<links, args, pos, acc, lookups, result, request, reply, before>>

\* one pass of its loop, or the code after the loop; stream is the kernel's
\* reply to the algorithm query, if one is made
ActiveStep(stream) ==
    /\ pc = "loop" /\ op = "get_active_routing_algos"
    /\ IF pos = Len(response)
       THEN /\ pc' = "done"
            /\ result' = Ok(acc)
            /\ UNCHANGED <<pos, acc, request, reply>>
       ELSE LET msg == response[pos + 1]
            IN  /\ pos' = pos + 1
                /\ IF ~IsMesh(msg)
                   THEN UNCHANGED <<pc, acc, result, request, reply>>
                   ELSE LET mesh_if == StringOf(msg.IFNAME)
                            algo == AlgoNameOf(links, mesh_if, stream)
                        IN  /\ request' = Append(request, mesh_if)
                            /\ reply' = Append(reply, stream)
                            /\ IF algo.ok
                               THEN /\ acc' = Append(acc, <<mesh_if, algo.value>>)
                                    /\ UNCHANGED <<pc, result>>
                               ELSE /\ pc' = "done"
                                    /\ result' = NetlinkErr("algorithm query", 0)
                                    /\ UNCHANGED acc
    /\ UNCHANGED <<links, op, args, response, lookups, before>>

NextAlgos ==
    \/ ActiveCall
    \/ /\ pc = "loop"
       /\ \E stream \in AlgoReplies : ActiveStep(stream)
    \/ Finish

SpecAlgos == InitAlgos /\ [][NextAlgos]_vars

\* the names of the links of the dump whose kind is "batadv", in dump order
RECURSIVE MeshNamesOf(_)
MeshNamesOf(dump) ==
    IF dump = << >> THEN << >>
    ELSE IF Head(dump).KIND # Absent /\ StringOf(Head(dump).KIND) = Batadv
    THEN <<StringOf(Head(dump).IFNAME)>> \o MeshNamesOf(Tail(dump))
    ELSE MeshNamesOf(Tail(dump))

\* C30: get_active_routing_algos asks for the algorithm of the links of the
\* dump whose kind is "batadv", once each and in dump order, and of no other
\* link; when it returns Ok, it returns one pair for each of them, in that
\* order: the name of the link and the algorithm name the kernel replied.
C30_OnePairPerMeshLink ==
    op = "get_active_routing_algos"
        => LET names == MeshNamesOf(SubSeq(response, 1, pos))
           IN  /\ request = names
               /\ (pc = "done" /\ result.ok)
                     => /\ pos = Len(response)
                        /\ Len(result.value) = Len(names)
                        /\ \A i \in 1..Len(names) :
                              result.value[i] = <<names[i], FirstAlgoName(reply[i]).value>>

\* two mesh interfaces with a link of another kind between them gave two pairs
C30_Witness ==
    /\ pc = "done" /\ op = "get_active_routing_algos"
    /\ Len(response) = 3
    /\ response[2].KIND # Absent /\ StringOf(response[2].KIND) # Batadv
    /\ result.ok /\ Len(result.value) = 2
    /\ result.value[1][2] # result.value[2][2]

----------------------------------------------------------------------------
(* Properties of the extractors (checked under SpecExtract).               *)

\* The reads each extractor makes that end the query when they fail, in the
\* order the extractor makes them. HARD_IF stands for the read of
\* HARD_IFNAME with its fallback to HARD_IFINDEX.
Check(a, width) == [attr |-> a, width |-> width]
CheckOrder(o) ==
    CASE o = "get_originators" ->
            <<Check("ORIG_ADDRESS", 6), Check("NEIGH_ADDRESS", 6),
              Check("HARD_IF", 4), Check("LAST_SEEN_MSECS", 4)>>
      [] o = "get_neighbors" ->
            <<Check("NEIGH_ADDRESS", 6), Check("LAST_SEEN_MSECS", 4),
              Check("HARD_IF", 4)>>
      [] o = "get_gateways_list" ->
            <<Check("ORIG_ADDRESS", 6), Check("ROUTER", 6), Check("HARD_IF", 4)>>
      [] o = "get_interfaces" -> <<Check("HARD_IFINDEX", 4)>>
      [] o = "get_transglobal" ->
            <<Check("TT_ADDRESS", 6), Check("ORIG_ADDRESS", 6), Check("TT_VID", 2),
              Check("TT_TTVN", 1), Check("TT_LAST_TTVN", 1), Check("TT_CRC32", 4),
              Check("TT_FLAGS", 4)>>
      [] o = "get_translocal" ->
            <<Check("TT_ADDRESS", 6), Check("TT_VID", 2), Check("TT_CRC32", 4),
              Check("TT_FLAGS", 4)>>

Missing(attrs, c) ==
    IF c.attr = "HARD_IF"
    THEN ~ReadsAs(attrs, "HARD_IFNAME", 16) /\ ~ReadsAs(attrs, "HARD_IFINDEX", 4)
    ELSE ~ReadsAs(attrs, c.attr, c.width)

MissingName(c) == IF c.attr = "HARD_IF" THEN "HARD_IFINDEX" ELSE c.attr

\* the envelope carries an index, no readable name, and the index names no link
ResolutionFails(attrs) ==
    /\ ~ReadsAs(attrs, "HARD_IFNAME", 16)
    /\ ReadsAs(attrs, "HARD_IFINDEX", 4)
    /\ ~if_indextoname(links, PayloadOf(attrs, "HARD_IFINDEX")).ok

\* positions of CheckOrder(o) whose attribute the envelope lacks
MissingAt(o, attrs) ==
    {k \in 1..Len(CheckOrder(o)) : Missing(attrs, CheckOrder(o)[k])}

FirstMissing(o, attrs) ==
    CHOOSE k \in MissingAt(o, attrs) : \A j \in MissingAt(o, attrs) : k <= j

\* a resolution that fails stands before position k of the check order
ResolutionFailsBefore(o, attrs, k) ==
    /\ ResolutionFails(attrs)
    /\ \E j \in 1..(k - 1) : CheckOrder(o)[j].attr = "HARD_IF"

\* the envelope taken last from the stream is a DATA envelope lacking a
\* mandatory attribute
LastLacks ==
    /\ op \in DumpOps
    /\ pos >= 1
    /\ response[pos].type = "DATA"
    /\ response[pos].payload = "Payload"
    /\ MissingAt(op, response[pos].attrs) # {}

\* C7 as claimed: a DATA envelope lacking a mandatory attribute makes the
\* query return a Parse error naming the first missing attribute in the
\* extractor's check order, with none of the earlier entities.
C7_ParseErrorNamesFirstMissing ==
    LastLacks
        => LET attrs == response[pos].attrs
               k == FirstMissing(op, attrs)
           IN  /\ pc = "done"
               /\ result = ParseErr(MissingName(CheckOrder(op)[k]))
               /\ result.value = << >>

\* C7 amended: a DATA envelope lacking a mandatory attribute makes the query
\* return an error and none of the earlier entities; the error is a Parse
\* error naming the first missing attribute in the extractor's check order,
\* unless the index-to-name resolution stands before that attribute in the
\* order and fails, and then it is the Netlink error of the resolution.
C7_ErrorOfFirstFailingCheck ==
    LastLacks
        => LET attrs == response[pos].attrs
               k == FirstMissing(op, attrs)
           IN  /\ pc = "done"
               /\ ~result.ok
               /\ result.value = << >>
               /\ IF ResolutionFailsBefore(op, attrs, k)
                  THEN result.kind = "Netlink" /\ result.what = "resolve"
                  ELSE result = ParseErr(MissingName(CheckOrder(op)[k]))

C7_Witness ==
    /\ pc = "done" /\ op = "get_transglobal"
    /\ pos = 2 /\ response[1] = Data(RowAttrs(op, 1))
    /\ MissingAt(op, response[2].attrs) = {3, 6}
    /\ result = ParseErr("TT_VID")
    /\ acc = << >>

\* the envelope taken last from the stream gave an entity: acc[pos]
LastExtracted ==
    /\ op \in DumpOps
    /\ pc = "loop"
    /\ pos >= 1
    /\ Len(acc) = pos
    /\ response[pos].type = "DATA"

NameOps == {"get_originators", "get_neighbors", "get_gateways_list", "get_interfaces"}
NameOf(o, entity) == IF o = "get_interfaces" THEN entity.ifname ELSE entity.outgoing_if

\* C8 as claimed: in the extractors that report an interface name, an
\* envelope that embeds the name costs no resolution; an envelope with the
\* index only costs exactly one, whose result is the name of the entity.
C8_NameThenIndexFallback ==
    (op \in NameOps /\ pos >= 1 /\ response[pos].type = "DATA"
                    /\ response[pos].payload = "Payload")
        => LET attrs == response[pos].attrs
           IN  /\ HasAttr(attrs, "HARD_IFNAME") => lookups[pos] = 0
               /\ (LastExtracted /\ ~HasAttr(attrs, "HARD_IFNAME"))
                     => /\ lookups[pos] = 1
                        /\ NameOf(op, acc[pos])
                             = if_indextoname(links, PayloadOf(attrs, "HARD_IFINDEX")).value

\* C9 as claimed: is_best of an originator, a gateway and a global
\* translation-table entry is true exactly when the best-flag attribute is
\* present, whatever its payload.
C9_BestFlagByPresence ==
    (LastExtracted /\ op \in {"get_originators", "get_gateways_list", "get_transglobal"})
        => (acc[pos].is_best <=> HasAttr(response[pos].attrs, "FLAG_BEST"))

\* the attributes an extractor reads with .ok(), and their widths
OptionalAttrs(o) ==
    CASE o = "get_originators" -> {Check("TQ", 1), Check("THROUGHPUT", 4)}
      [] o = "get_neighbors" -> {Check("THROUGHPUT", 4)}
      [] o = "get_gateways_list" ->
            {Check("BANDWIDTH_DOWN", 4), Check("BANDWIDTH_UP", 4),
             Check("THROUGHPUT", 4), Check("TQ", 1)}
      [] o = "get_translocal" -> {Check("LAST_SEEN_MSECS", 4)}
      [] OTHER -> {}

\* C10 as claimed: an absent optional attribute gives an explicit no-value
\* marker, never a number: the entity differs from the entity of the same
\* envelope with the attribute present, whatever number it carries.
C10_AbsentIsNoValue ==
    LastExtracted
        => \A c \in OptionalAttrs(op) : \A v \in {0, 7} :
              ~HasAttr(response[pos].attrs, c.attr)
                  => acc[pos] # Extract(op, [response[pos].attrs EXCEPT
                                                ![c.attr] = Attr(c.width, v)],
                                        links).res.value

----------------------------------------------------------------------------
(* Properties of the link operations and mesh setters (checked under       *)
(* SpecLink).                                                              *)

\* a mutation has sent its request and returned
MutationReturned == pc = "done" /\ op \in MutationOps /\ request # << >>

\* C5 as claimed: a mutation that has sent its request returns Ok exactly
\* when the one ACK or ERROR envelope the kernel answers with has code zero,
\* and an error when that code is nonzero.
C5_OkOnlyOnZeroAck ==
    MutationReturned
        => /\ Len(reply) = 1
           /\ result.ok <=> reply[1].code = 0

\* the index of the hard interface that set_interface names
IfaceIndex == if_nametoindex(before, args[1]).value

\* C6 as claimed: when iface exists and is not attached to mesh,
\* count_interfaces(mesh) after set_interface(iface, Some(mesh)) is one
\* greater than before the call; when iface is attached to a mesh,
\* count_interfaces of that mesh after set_interface(iface, None) is one
\* smaller than before the call.
C6_CountFollowsSetInterface ==
    (MutationReturned /\ op = "set_interface" /\ result.ok)
        => LET was == before[IfaceIndex].master
           IN  IF args[2] = None
               THEN was # 0
                       => CountAttached(links, was) = CountAttached(before, was) - 1
               ELSE LET mesh == if_nametoindex(before, args[2][1]).value
                    IN  was # mesh
                           => CountAttached(links, mesh)
                                 = CountAttached(before, mesh) + 1

\* the same, for the calls the kernel acknowledged with code zero
C6_CountFollowsAcknowledged ==
    reply = <<Error(0)>> => C6_CountFollowsSetInterface

\* set_gateway has sent its request and returned
GatewaySent == MutationReturned /\ op = "set_gateway"

\* C11 as claimed: besides the mesh-interface index, set_gateway sends the
\* mode attribute alone for Off, the mode and a selection class for Client,
\* and the mode, both bandwidths and a selection class for Server.
C11_GatewayPayloadShape ==
    GatewaySent
        => DOMAIN request.attrs \ {"MESH_IFINDEX"} =
              CASE args[1] = "Off" -> {"GW_MODE"}
                [] args[1] = "Client" -> {"GW_MODE", "GW_SEL_CLASS"}
                [] args[1] = "Server" ->
                      {"GW_MODE", "GW_BANDWIDTH_DOWN", "GW_BANDWIDTH_UP", "GW_SEL_CLASS"}

\* C12 as claimed: in Server mode with a down value and no up value, the
\* up-bandwidth sent is the down-bandwidth sent divided by 5, and the
\* selection class sent is 0 when none is supplied.
C12_UpIsFifthOfDown ==
    (GatewaySent /\ args[1] = "Server" /\ args[2] # None /\ args[3] = None)
        => /\ request.attrs.GW_BANDWIDTH_UP = request.attrs.GW_BANDWIDTH_DOWN \div 5
           /\ args[4] = None => request.attrs.GW_SEL_CLASS = 0

BoolSetters == {"set_aggregation", "set_bridge_loop_avoidance", "set_ap_isolation"}

\* what the getter that matches setter o returns for mesh_if on link table
\* lnk, when its read is answered
ReadBack(o, lnk, mesh_if) ==
    LET answered == {stream \in KernelGetMeshInfo(lnk, if_nametoindex(lnk, mesh_if).value) :
                        stream[1].type = "DATA"}
    IN  CASE o = "set_aggregation" ->
                {FirstBool(stream, "AGGREGATED_OGMS_ENABLED") : stream \in answered}
          [] o = "set_bridge_loop_avoidance" ->
                {FirstBool(stream, "BRIDGE_LOOP_AVOIDANCE_ENABLED") : stream \in answered}
          [] o = "set_ap_isolation" ->
                {r \in read_mesh_bool(lnk, mesh_if) : r.ok}

\* a boolean setter was called with true and returned Ok
SetTrueReturnedOk ==
    pc = "done" /\ op \in BoolSetters /\ args[2] = TRUE /\ result.ok

\* C13 as claimed: after set(mesh_if, true) returns Ok, the first time and
\* when the parameter was already true, the matching get returns true.
C13_SetTrueReadsTrue ==
    SetTrueReturnedOk
        => \A r \in ReadBack(op, links, args[1]) : r = Ok(TRUE)

\* the same for the netlink setters, for the calls the kernel acknowledged
\* with code zero
C13_AcknowledgedReadsTrue ==
    (SetTrueReturnedOk /\ reply = <<Error(0)>>)
        => /\ ReadBack(op, links, args[1]) # {}
           /\ \A r \in ReadBack(op, links, args[1]) : r = Ok(TRUE)

\* C14 as claimed: when the interface that set_interface resolved is gone
\* by the time its request is sent, set_interface returns a not-found or a
\* protocol error, never Ok.
C14_StaleIndexIsAnError ==
    (MutationReturned /\ op = "set_interface" /\ request.index \notin DOMAIN links)
        => /\ ~result.ok
           /\ result.kind \in {"NotFound", "Netlink"}

\* create_interface was called with the name of a link that existed
CreatedExisting ==
    /\ MutationReturned /\ op = "create_interface"
    /\ \E i \in DOMAIN before : before[i].name = args[1]

\* C15 as claimed: create_interface with the name of an existing link
\* returns an error, and leaves the link table as it was.
C15_CreateIsExclusive ==
    CreatedExisting => (~result.ok /\ links = before)

\* the part of it that the request flags give: the table is left as it was
C15_ExistingLinkUntouched ==
    CreatedExisting => (links = before /\ reply[1].code # 0)

\* C16: if_nametoindex(name) returns the index of the link whose name is
\* exactly name, and NotFound when no link has that name; if_indextoname(index)
\* returns the name of the link with that index, and NotFound when none has it.
C16_ResolutionIsExact ==
    /\ (pc = "done" /\ op = "if_nametoindex")
          => IF \E i \in DOMAIN links : links[i].name = args[1]
             THEN /\ result.ok
                  /\ result.value \in DOMAIN links
                  /\ links[result.value].name = args[1]
             ELSE ~result.ok /\ result.kind = "NotFound"
    /\ (pc = "done" /\ op = "if_indextoname")
          => IF args[1] \in DOMAIN links
             THEN result = Ok(links[args[1]].name)
             ELSE ~result.ok /\ result.kind = "NotFound"

C16_Witness ==
    /\ pc = "done" /\ op = "if_nametoindex"
    /\ args[1] = Bat1
    /\ result.ok /\ links[result.value].name = Bat1
    /\ \E i \in DOMAIN links : links[i].name = Bat0 /\ i < result.value

\* C17: count_interfaces(mesh_if) returns the number of links whose master
\* is the index of mesh_if; links without a master or with another master
\* are not counted.
C17_CountsLinksOfMaster ==
    (pc = "done" /\ op = "count_interfaces"
                 /\ \E i \in DOMAIN links : links[i].name = args[1])
        => LET mesh == CHOOSE i \in DOMAIN links : links[i].name = args[1]
           IN  result = Ok(Cardinality({i \in DOMAIN links : links[i].master = mesh}))

C17_Witness ==
    /\ pc = "done" /\ op = "count_interfaces"
    /\ result = Ok(1)
    /\ \E i, j \in DOMAIN links :
          /\ links[i].name = args[1]
          /\ links[j].kind = "ether" /\ links[j].master # i

\* the operations that take the name of a mesh interface
MeshNamedOps ==
    {"get_neighbors", "get_gateway", "set_gateway", "get_interfaces",
     "count_interfaces", "set_interface", "get_algoname_netlink"}

\* the mesh-interface name the running operation was given, as an Option
MeshArg ==
    CASE op = "set_interface" -> args[2]
      [] op = "set_gateway" -> Some(args[5])
      [] OTHER -> Some(args[1])

\* the link table the running operation was called on
TableAtCall == IF op \in DumpOps THEN links ELSE before

\* the running operation named a mesh interface that no link had
MeshMissing ==
    /\ pc = "done" /\ op \in MeshNamedOps
    /\ MeshArg # None
    /\ \A i \in DOMAIN TableAtCall : TableAtCall[i].name # MeshArg[1]

\* C19 as claimed: an operation that is given the name of a mesh interface
\* that no link has fails with an error of kind not-found.
C19_MissingMeshIsNotFound ==
    MeshMissing => (~result.ok /\ result.kind = "NotFound")

\* what the operations return instead: always an error
C19_MissingMeshIsAnError ==
    MeshMissing => ~result.ok

\* the queries that read the reply to one request that is not a dump
SingleReplyOps ==
    {"get_gateway", "get_aggregation", "get_bridge_loop_avoidance",
     "get_algoname_netlink"}

\* a single-reply query has sent its request and returned
SingleReplyReturned ==
    /\ pc = "done" /\ op \in SingleReplyOps
    /\ if_nametoindex(before, args[1]).ok

\* C21 as claimed: a single-reply query returns a Netlink error carrying the
\* code of a nonzero ERROR envelope that no DATA envelope precedes, and a
\* value only from a DATA envelope that no DONE or ERROR envelope precedes.
C21_SingleReplyFollowsDumpRules ==
    SingleReplyReturned
        => /\ \A i \in 1..Len(response) :
                 (/\ response[i].type = "ERROR" /\ response[i].code # 0
                  /\ \A j \in 1..(i - 1) : response[j].type # "DATA")
                     => (~result.ok /\ result.kind = "Netlink"
                             /\ result.code = response[i].code)
           /\ result.ok
                 => \E i \in 1..Len(response) :
                       /\ response[i].type = "DATA"
                       /\ \A j \in 1..(i - 1) : ~IsTerminator(response[j])

\* what does hold: a nonzero ERROR envelope alone never gives a value
C21_ErrorReplyIsAnError ==
    (SingleReplyReturned /\ Len(response) = 1 /\ response[1].type = "ERROR")
        => ~result.ok

\* the factor a unit stands for
FactorOf(unit) == IF to_lowercase(unit) = Mbit THEN 1000 ELSE 1

\* v is the number the part x denotes in kbit/s
Denotes(v, x) ==
    [top |-> 0, hi |-> v.hi, lo |-> v.lo] = MulSmall(x.n, FactorOf(x.unit))

ServerParsed == pc = "done" /\ op = "parse_gw_param" /\ args[1] = "Server"

\* C25 as claimed: in Server mode a number n with no unit or with kbit is n
\* kbit/s and with mbit is n * 1000 kbit/s, in any case of the letters, for
\* every n that fits 32 bits; the up value is parsed the same way, or is
\* down / 5 when only down is given.
C25_ServerBandwidthParsed ==
    ServerParsed
        => /\ result.ok
           /\ Denotes(result.value[1][1], before.down)
           /\ IF before.up = None
              THEN result.value[2] = Some(DivSmall(result.value[1][1], 5))
              ELSE Denotes(result.value[2][1], before.up[1])

\* what does hold: the same when n * 1000 fits 32 bits
C25_ParsedWhenProductFits ==
    (/\ ServerParsed
     /\ MulSmall(before.down.n, FactorOf(before.down.unit)).top = 0
     /\ before.up # None
           => MulSmall(before.up[1].n, FactorOf(before.up[1].unit)).top = 0)
        => /\ result.ok
           /\ Denotes(result.value[1][1], before.down)
           /\ IF before.up = None
              THEN result.value[2] = Some(DivSmall(result.value[1][1], 5))
              ELSE Denotes(result.value[2][1], before.up[1])

\* get_gateway has read a reply whose mode attribute says Off or Client
GatewayNotServer ==
    /\ pc = "done" /\ op = "get_gateway"
    /\ if_nametoindex(before, args[1]).ok
    /\ Len(response) = 1 /\ response[1].type = "DATA"
    /\ ReadsAs(response[1].attrs, "GW_MODE", 1)
    /\ PayloadOf(response[1].attrs, "GW_MODE") \in {0, 1}

\* C26 as claimed: a reply whose mode is Off or Client and that lacks the
\* bandwidth attributes, the other attributes being there, still gives a
\* GatewayInfo.
C26_BandwidthOnlyForServer ==
    (/\ GatewayNotServer
     /\ ~HasAttr(response[1].attrs, "GW_BANDWIDTH_DOWN")
     /\ ~HasAttr(response[1].attrs, "GW_BANDWIDTH_UP")
     /\ HasAttr(response[1].attrs, "GW_SEL_CLASS")
     /\ HasAttr(response[1].attrs, "ALGO_NAME"))
        => result.ok

\* what get_gateway does: every field is required whatever the mode
C26_EveryFieldRequired ==
    (pc = "done" /\ op = "get_gateway" /\ result.ok)
        => \A a \in {"GW_SEL_CLASS", "GW_BANDWIDTH_DOWN", "GW_BANDWIDTH_UP", "ALGO_NAME"} :
              HasAttr(response[1].attrs, a)

\* C28 as claimed: building an originator fails with a Parse error when the
\* originator address or the last-seen attribute is absent, and succeeds with
\* a no-value field when the TQ or the throughput attribute is absent.
C28_OriginatorMandatoryFields ==
    (pc = "done" /\ op = "try_from_attr_object")
        => LET obj == args[1]
           IN  /\ (obj.ORIG_ADDRESS = None \/ obj.LAST_SEEN_MSECS = None)
                     => (~result.ok /\ result.kind = "Parse")
               /\ (result.ok /\ obj.TQ = None) => result.value.tq = None
               /\ (result.ok /\ obj.THROUGHPUT = None) => result.value.throughput = None

\* what try_from_attr_object does: only the originator address is mandatory
C28_OnlyAddressMandatory ==
    (pc = "done" /\ op = "try_from_attr_object")
        => LET obj == args[1]
           IN  /\ obj.ORIG_ADDRESS = None => (~result.ok /\ result.kind = "Parse")
               /\ (result.ok /\ obj.LAST_SEEN_MSECS = None)
                     => result.value.last_seen_ms = None
               /\ (result.ok /\ obj.TQ = None) => result.value.tq = None
               /\ (result.ok /\ obj.THROUGHPUT = None) => result.value.throughput = None

\* the loop of get_originators does as claimed (under SpecExtract)
C28_GetOriginatorsFields ==
    (op = "get_originators" /\ pos >= 1 /\ response[pos].type = "DATA"
         /\ response[pos].payload = "Payload")
        => LET attrs == response[pos].attrs
           IN  /\ (~HasAttr(attrs, "ORIG_ADDRESS") \/ ~HasAttr(attrs, "LAST_SEEN_MSECS"))
                     => (pc = "done" /\ ~result.ok)
               /\ (LastExtracted /\ ~HasAttr(attrs, "TQ")) => acc[pos].tq = None
               /\ (LastExtracted /\ ~HasAttr(attrs, "THROUGHPUT"))
                     => acc[pos].throughput = None

\* C29 as claimed: a payload of one byte is cast to U8, of two bytes to U16
\* and of four bytes to U32, both little-endian; a payload of another length
\* that is UTF-8 text ended by a zero byte is cast to String without the zero
\* byte; any other payload is cast to Bytes unchanged.
C29_CastByLength ==
    (pc = "done" /\ op = "auto_cast_value")
        => LET data == args[1]
           IN  result.value =
                  IF Len(data) = 1 THEN AttrU8(data[1])
                  ELSE IF Len(data) = 2 THEN AttrU16(LeU16(data))
                  ELSE IF Len(data) = 4 THEN AttrU32(LeU32(data))
                  ELSE IF /\ data # << >> /\ data[Len(data)] = 0
                          /\ Utf8(SubSeq(data, 1, Len(data) - 1))
                  THEN AttrString(SubSeq(data, 1, Len(data) - 1))
                  ELSE AttrBytes(data)

\* what does hold: the same for payloads whose last byte is not zero
C29_CastWithoutTerminator ==
    (pc = "done" /\ op = "auto_cast_value" /\ args[1] # << >>
         /\ args[1][Len(args[1])] # 0)
        => LET data == args[1]
           IN  result.value =
                  IF Len(data) = 1 THEN AttrU8(data[1])
                  ELSE IF Len(data) = 2 THEN AttrU16(LeU16(data))
                  ELSE IF Len(data) = 4 THEN AttrU32(LeU32(data))
                  ELSE AttrBytes(data)

-----------------------------------------------------------------------------
(* The neighbor table of the command line: dedup_neighbors.                *)

MaxNeigh == 3

NeighMacs == {<<2, 0, 0, 0, 0, 1>>, <<2, 0, 0, 0, 0, 2>>}
SeenAges == {0, 10, 20}

\* the Neighbor values the pass is given
NeighborEntries ==
    [neigh : NeighMacs, outgoing_if : {Eth0, Wlan0}, last_seen_ms : SeenAges,
     throughput_kbps : {None}]

NeighborLists == UNION {[1..n -> NeighborEntries] : n \in 0..MaxNeigh}

\* let key = (n.neigh, n.outgoing_if.clone());
KeyOf(n) == <<n.neigh, n.outgoing_if>>

Replaces_Later(n, existing) == n.last_seen_ms > existing.last_seen_ms

\* if n.last_seen_ms < existing.last_seen_ms { map.insert(key, n); }
Replaces(n, existing) == n.last_seen_ms < existing.last_seen_ms

\* map.insert(key, n)
Insert(map, key, n) ==
    [k \in DOMAIN map \cup {key} |-> IF k = key THEN n ELSE map[k]]

\* the HashMap after the loop over neighbors[1..upto]
RECURSIVE DedupMap(_, _)
DedupMap(neighbors, upto) ==
    IF upto = 0 THEN << >>
    ELSE LET map == DedupMap(neighbors, upto - 1)
             n == neighbors[upto]
             key == KeyOf(n)
         IN  IF key \in DOMAIN map
             THEN IF Replaces(n, map[key]) THEN Insert(map, key, n) ELSE map
             ELSE Insert(map, key, n)

\* map.into_values().collect(): the values, in an order the HashMap chooses
IntoValues(map) ==
    {[i \in 1..Cardinality(DOMAIN map) |-> map[order[i]]] :
        order \in {f \in [1..Cardinality(DOMAIN map) -> DOMAIN map] :
                      \A i, j \in 1..Cardinality(DOMAIN map) : f[i] = f[j] => i = j}}

dedup_neighbors(neighbors) == IntoValues(DedupMap(neighbors, Len(neighbors)))

Dedup(neighbors) ==
    /\ pc' = "done"
    /\ op' = "dedup_neighbors"
    /\ args' = <<neighbors>>
    /\ \E out \in dedup_neighbors(neighbors) : result' = Ok(out)
    /\ UNCHANGED <<links, response, pos, acc, lookups, request, reply, before>>

NextDedup ==
    \/ /\ pc = "idle"
       /\ \E neighbors \in NeighborLists : Dedup(neighbors)
    \/ Finish

SpecDedup == Init /\ [][NextDedup]_vars

\* the entries of the input with the key k
Duplicates(neighbors, k) ==
    {i \in 1..Len(neighbors) : KeyOf(neighbors[i]) = k}

\* C31: the output of dedup_neighbors has exactly one entry for each distinct
\* (neighbor MAC, outgoing interface) pair of the input and no other entry;
\* that entry is one of the input's entries with the pair, and none of the
\* duplicates was seen more recently (has a smaller last_seen_ms).
C31_DedupKeepsMostRecent ==
    (pc = "done" /\ op = "dedup_neighbors")
        => LET neighbors == args[1]
               out == result.value
               keys == {KeyOf(neighbors[i]) : i \in 1..Len(neighbors)}
           IN  /\ result.ok
               /\ Len(out) = Cardinality(keys)
               /\ \A k \in keys :
                    \E j \in 1..Len(out) :
                        /\ KeyOf(out[j]) = k
                        /\ \A j2 \in 1..Len(out) : KeyOf(out[j2]) = k => j2 = j
                        /\ \E i \in Duplicates(neighbors, k) : neighbors[i] = out[j]
                        /\ \A i \in Duplicates(neighbors, k) :
                               out[j].last_seen_ms <= neighbors[i].last_seen_ms

\* three entries, two of them for one pair with the later one seen more
\* recently, have been reduced to two
C31_Witness ==
    /\ pc = "done"
    /\ op = "dedup_neighbors"
    /\ Len(args[1]) = 3
    /\ KeyOf(args[1][1]) = KeyOf(args[1][3])
    /\ KeyOf(args[1][1]) # KeyOf(args[1][2])
    /\ args[1][3].last_seen_ms < args[1][1].last_seen_ms
    /\ Len(result.value) = 2
    /\ \E j \in 1..2 : result.value[j] = args[1][3]

-----------------------------------------------------------------------------
(* Name fields: the 16-byte interface name and the algorithm name.         *)

MaxText == 3
FieldLen == 16

FieldBytes == {0, 98, 169, 195, 255}
Texts == UNION {[1..n -> FieldBytes] : n \in 0..MaxText}

\* a text followed by fill bytes up to the size of the field
Padded(text, fill) ==
    [i \in 1..FieldLen |-> IF i <= Len(text) THEN text[i] ELSE fill]

\* the fields the kernel can send: a terminated name with zero padding, and a
\* name that uses the whole field
NameFields == {Padded(t, f) : t \in Texts, f \in {0, 120}}

\* U+FFFD REPLACEMENT CHARACTER
Replacement == <<239, 191, 189>>

\* number of bytes of the sequence a lead byte announces, 0 for no lead byte
Announced(b) ==
    IF b < 128 THEN 1
    ELSE IF b >= 194 /\ b <= 223 THEN 2
    ELSE IF b >= 224 /\ b <= 239 THEN 3
    ELSE IF b >= 240 /\ b <= 244 THEN 4
    ELSE 0

\* is c allowed as the k-th byte of a sequence with the lead byte b
Follows(b, k, c) ==
    /\ Cont(c)
    /\ (k = 2 /\ b = 224) => c >= 160
    /\ (k = 2 /\ b = 237) => c <= 159
    /\ (k = 2 /\ b = 240) => c >= 144
    /\ (k = 2 /\ b = 244) => c <= 143

\* length of the longest well-formed start of the sequence at the head of bytes
RECURSIVE ValidUpTo(_, _)
ValidUpTo(bytes, k) ==
    IF k >= Announced(Head(bytes)) THEN k
    ELSE IF k + 1 <= Len(bytes) /\ Follows(Head(bytes), k + 1, bytes[k + 1])
    THEN ValidUpTo(bytes, k + 1)
    ELSE k

\* String::from_utf8_lossy: well-formed sequences are kept, every maximal
\* ill-formed part becomes one U+FFFD
RECURSIVE from_utf8_lossy(_)
from_utf8_lossy(bytes) ==
    IF bytes = << >> THEN << >>
    ELSE LET need == Announced(Head(bytes))
             got == IF need = 0 THEN 0 ELSE ValidUpTo(bytes, 1)
         IN  IF need # 0 /\ got = need
             THEN SubSeq(bytes, 1, need)
                      \o from_utf8_lossy(SubSeq(bytes, need + 1, Len(bytes)))
             ELSE LET skip == IF got = 0 THEN 1 ELSE got
                  IN  Replacement
                          \o from_utf8_lossy(SubSeq(bytes, skip + 1, Len(bytes)))

\* bytes.iter().position(|&b| b == 0), counted from 0
RECURSIVE position(_)
position(bytes) ==
    IF bytes = << >> THEN None
    ELSE IF Head(bytes) = 0 THEN Some(0)
    ELSE LET rest == position(Tail(bytes))
         IN  IF rest = None THEN None ELSE Some(rest[1] + 1)

nul_pos_Terminated(bytes) ==
    IF position(bytes) = None THEN Len(bytes) - 1 ELSE position(bytes)[1]

\* .unwrap_or(bytes.len())
nul_pos(bytes) ==
    IF position(bytes) = None THEN Len(bytes) ELSE position(bytes)[1]

\* String::from_utf8_lossy(&bytes[..nul_pos]).into_owned()
DecodeField(bytes) == from_utf8_lossy(SubSeq(bytes, 1, nul_pos(bytes)))

\* the HARD_IFNAME branch of get_neighbors: the attribute is read as [u8; 16]
DecodeIfname(field) ==
    /\ pc' = "done"
    /\ op' = "hard_ifname"
    /\ args' = <<field>>
    /\ result' = Ok(DecodeField(field))
    /\ UNCHANGED <<links, response, pos, acc, lookups, request, reply, before>>

\* the ALGO_NAME attribute of get_gateway and get_available_routing_algos:
\* the payload is read with its own length
DecodeAlgo(bytes) ==
    /\ pc' = "done"
    /\ op' = "algo_name"
    /\ args' = <<bytes>>
    /\ result' = Ok(DecodeField(bytes))
    /\ UNCHANGED <<links, response, pos, acc, lookups, request, reply, before>>

NextField ==
    \/ /\ pc = "idle"
       /\ \E field \in NameFields : DecodeIfname(field)
    \/ /\ pc = "idle"
       /\ \E bytes \in Texts : DecodeAlgo(bytes)
    \/ Finish

SpecField == Init /\ [][NextField]_vars

FieldDecoded == pc = "done" /\ op \in {"hard_ifname", "algo_name"}

\* C32 as stated: the decoded name is the bytes of the field before its first
\* zero byte, the whole field when it has none.
C32_FieldDecodesToPrefix ==
    FieldDecoded => result = Ok(TrimNul(args[1]))

\* C32: decoding a name field never fails, with or without a zero byte in the
\* field; when the bytes before the first zero byte (the whole field when it
\* has none) are valid UTF-8 the decoded name is exactly these bytes, and in
\* every case it is valid UTF-8 without a zero byte.
C32_FieldDecodesLossyPrefix ==
    FieldDecoded
        => /\ result.ok
           /\ Utf8(TrimNul(args[1])) => result.value = TrimNul(args[1])
           /\ Utf8(result.value)
           /\ \A i \in 1..Len(result.value) : result.value[i] # 0

\* a 16-byte field without any zero byte has been decoded to its 16 bytes
C32_Witness ==
    /\ pc = "done"
    /\ op = "hard_ifname"
    /\ \A i \in 1..FieldLen : args[1][i] # 0
    /\ Utf8(args[1])
    /\ result.ok
    /\ Len(result.value) = FieldLen

-----------------------------------------------------------------------------
(* Envelopes that carry attributes an extractor does not read.             *)

\* the attribute types each loop asks its attribute handle for
AttrsRead(o) ==
    CASE o = "get_originators" ->
            {"ORIG_ADDRESS", "NEIGH_ADDRESS", "HARD_IFNAME", "HARD_IFINDEX",
             "LAST_SEEN_MSECS", "TQ", "THROUGHPUT", "ROUTER", "FLAG_BEST"}
      [] o = "get_neighbors" ->
            {"NEIGH_ADDRESS", "LAST_SEEN_MSECS", "HARD_IFNAME", "HARD_IFINDEX",
             "THROUGHPUT"}
      [] o = "get_gateways_list" ->
            {"FLAG_BEST", "ORIG_ADDRESS", "ROUTER", "HARD_IFNAME", "HARD_IFINDEX",
             "BANDWIDTH_DOWN", "BANDWIDTH_UP", "THROUGHPUT", "TQ"}
      [] o = "get_interfaces" -> {"HARD_IFINDEX", "HARD_IFNAME", "ACTIVE"}
      [] o = "get_transglobal" ->
            {"TT_ADDRESS", "ORIG_ADDRESS", "TT_VID", "TT_TTVN", "TT_LAST_TTVN",
             "TT_CRC32", "TT_FLAGS", "FLAG_BEST"}
      [] o = "get_translocal" ->
            {"TT_ADDRESS", "TT_VID", "TT_CRC32", "TT_FLAGS", "LAST_SEEN_MSECS"}
      [] o = AlgoOp -> {"ALGO_NAME"}

\* payloads of the added attributes: a flag, a number, a name
ForeignValues == {FlagAttr, Attr(4, 7), IfnameField}

\* the envelope with the attributes of the set added, each with the value v
WithForeign(attrs, added, v) ==
    [a \in AttrNames |-> IF a \in added THEN v ELSE attrs[a]]

\* the envelope without the attributes that o does not read
Stripped(o, env) ==
    [env EXCEPT !.attrs =
        [a \in AttrNames |-> IF a \in AttrsRead(o) THEN env.attrs[a] ELSE Absent]]

StrippedStream(o, stream) == [i \in 1..Len(stream) |-> Stripped(o, stream[i])]

\* the additions made to an envelope of o: every unread attribute, or one
ForeignSets(o) ==
    {AttrNames \ AttrsRead(o)} \cup {{a} : a \in {"TQ", "ACTIVE", "ALGO_NAME"} \ AttrsRead(o)}

NextForeign ==
    \/ /\ pc = "idle"
       /\ \E o \in DumpOps \cup {AlgoOp} :
             \E attrs \in RichAttrs(o), added \in ForeignSets(o), v \in ForeignValues :
                Call(o, Bat0, <<Data(WithForeign(attrs, added, v))>>)
    \/ Step
    \/ Finish

SpecForeign == Init /\ [][NextForeign]_vars

\* C33: an operation that read an envelope carrying attributes of types it
\* does not read returns exactly what it returns for the same envelope without
\* them: the same success or error, and the same entity.
C33_ForeignAttributesIgnored ==
    (pc = "done" /\ op \in DumpOps \cup {AlgoOp})
        => result = RunAlone(op, args, StrippedStream(op, response), links)

\* get_neighbors has returned the neighbor of an envelope that carried
\* attributes it does not read
C33_Witness ==
    /\ pc = "done"
    /\ op = "get_neighbors"
    /\ result.ok
    /\ Len(result.value) = 1
    /\ HasAttr(response[1].attrs, "TT_FLAGS")
    /\ HasAttr(response[1].attrs, "ORIG_ADDRESS")

-----------------------------------------------------------------------------
(* The command line: `interface add` and `interface del` of main. Each     *)
(* step is one call of the client, in the order main makes them; acc is    *)
(* the list of the calls made, lookups the locals exists, pre_count, cnt.  *)

CliActions == {"add", "a", "del", "d"}
CliParams == {<<Eth0>>, <<Wlan0>>, <<Eth0, Wlan0>>}

\* one entry of the list of calls
Called(name, a) == [call |-> name, args |-> a]

\* action.starts_with("a")
StartsWithA(action) == action \in {"add", "a"}

\* what count_interfaces returns on the link table lnk
CountResult(lnk, mesh_if) ==
    LET r == if_nametoindex(lnk, mesh_if)
    IN  IF r.ok THEN Ok(CountAttached(lnk, r.value)) ELSE NetlinkErr("ifindex", 0)

\* exit_on_error on an Err: the message is printed and the process exits
Exit(err) ==
    /\ pc' = "done"
    /\ result' = err

\* `interface add|del params` with or without -M is started
CliStart(action, manual, mesh_if, params) ==
    /\ pc = "idle"
    /\ pc' = "exists"
    /\ op' = action
    /\ args' = <<manual, mesh_if, params>>
    /\ before' = links
    /\ UNCHANGED <<links, response, pos, acc, lookups, result, request, reply>>

CliExists_IgnoresManual ==
    /\ pc = "exists"
    /\ LET r == if_nametoindex(links, args[2])
           exists == IF r.ok THEN r.value ELSE 0
       IN  /\ lookups' = <<exists>>
           /\ pc' = IF exists = 0 /\ StartsWithA(op) THEN "create" ELSE "pre_count"
    /\ acc' = Append(acc, Called("if_nametoindex", <<args[2]>>))
    /\ UNCHANGED <<links, op, args, response, pos, result, request, reply, before>>

\* let exists = client.if_nametoindex(mesh_if).await.unwrap_or(0);
CliExists ==
    /\ pc = "exists"
    /\ LET r == if_nametoindex(links, args[2])
           exists == IF r.ok THEN r.value ELSE 0
       IN  /\ lookups' = <<exists>>
           /\ pc' = IF ~args[1] /\ exists = 0 /\ StartsWithA(op)
                    THEN "create" ELSE "pre_count"
    /\ acc' = Append(acc, Called("if_nametoindex", <<args[2]>>))
    /\ UNCHANGED <<links, op, args, response, pos, result, request, reply, before>>

\* exit_on_error(client.create_interface(mesh_if, None).await);
CliCreate ==
    /\ pc = "create"
    /\ LET req == [cmd |-> "Newlink", flags |-> {"REQUEST", "CREATE", "EXCL", "ACK"},
                   ifname |-> args[2], kind |-> "batadv", algo |-> None]
       IN  \E out \in KernelNewlink(links, req) :
              /\ links' = out.links
              /\ request' = req
              /\ reply' = <<Error(out.code)>>
    /\ acc' = Append(acc, Called("create_interface", <<args[2], None>>))
    /\ pc' = "pre_count"
    /\ UNCHANGED <<op, args, response, pos, lookups, result, before>>

\* let pre_count = exit_on_error(client.count_interfaces(mesh_if).await);
CliPreCount ==
    /\ pc = "pre_count"
    /\ acc' = Append(acc, Called("count_interfaces", <<args[2]>>))
    /\ LET r == CountResult(links, args[2])
       IN  IF r.ok
           THEN /\ lookups' = Append(lookups, r.value)
                /\ pc' = "params"
                /\ UNCHANGED result
           ELSE /\ Exit(r)
                /\ UNCHANGED lookups
    /\ UNCHANGED <<links, op, args, response, pos, request, reply, before>>

\* one pass of `for iface in &params`: set_interface(iface, Some(mesh_if)) for
\* add, set_interface(iface, None) for del
CliSetInterface ==
    /\ pc = "params"
    /\ pos < Len(args[3])
    /\ LET iface == args[3][pos + 1]
           mesh_if == IF StartsWithA(op) THEN Some(args[2]) ELSE None
           i == if_nametoindex(links, iface)
           m == IF mesh_if = None THEN Ok(0) ELSE if_nametoindex(links, mesh_if[1])
       IN  /\ acc' = Append(acc, Called("set_interface", <<iface, mesh_if>>))
           /\ IF ~i.ok \/ ~m.ok
              THEN /\ Exit(NetlinkErr("ifindex", 0))
                   /\ UNCHANGED <<links, pos, request, reply>>
              ELSE LET req == [cmd |-> "Setlink", flags |-> {"REQUEST", "ACK"},
                               index |-> i.value, master |-> m.value]
                   IN  /\ \E out \in KernelSetlink(links, req) :
                             /\ links' = out.links
                             /\ reply' = <<Error(out.code)>>
                       /\ request' = req
                       /\ pos' = pos + 1
                       /\ UNCHANGED <<pc, result>>
    /\ UNCHANGED <<op, args, response, lookups, before>>

\* after the loop: if !manual && (action == "del" || action == "d") the count
\* is taken again and the warning printed when it fell to 0; main returns
CliAfterLoop ==
    /\ pc = "params"
    /\ pos = Len(args[3])
    /\ pc' = "done"
    /\ IF ~args[1] /\ op \in {"del", "d"}
       THEN LET r == CountResult(links, args[2])
            IN  IF r.ok
                THEN /\ lookups' = Append(lookups, r.value)
                     /\ result' = Ok(<< >>)
                     /\ acc' = Append(acc, Called("count_interfaces", <<args[2]>>))
                            \o (IF r.value = 0 /\ lookups[2] > 0
                                THEN <<Called("println", <<"Warning">>)>> ELSE << >>)
                ELSE /\ result' = r
                     /\ acc' = Append(acc, Called("count_interfaces", <<args[2]>>))
                     /\ UNCHANGED lookups
       ELSE /\ result' = Ok(<< >>)
            /\ UNCHANGED <<acc, lookups>>
    /\ UNCHANGED <<links, op, args, response, pos, request, reply, before>>

NextCli ==
    \/ /\ pc = "idle"
       /\ \E action \in CliActions, manual \in BOOLEAN, m \in MeshNames,
             params \in CliParams : CliStart(action, manual, m, params)
    \/ CliExists
    \/ CliCreate
    \/ CliPreCount
    \/ CliSetInterface
    \/ CliAfterLoop
    \/ Finish

SpecCli == InitLink /\ [][NextCli]_vars

\* the positions in the list of calls at which name was called
CallsOf(name) == {j \in 1..Len(acc) : acc[j].call = name}

CliRuns(actions) == pc \notin {"idle"} /\ op \in actions

\* the link table has a link called name
Exists(lnk, name) == \E i \in DOMAIN lnk : lnk[i].name = name

\* C34: whenever `interface add` without -M, started when the mesh interface
\* did not exist, has called set_interface, it has called create_interface for
\* the mesh interface before the first of these calls, and that call made the
\* link; `interface add` with -M never calls create_interface.
C34_AddCreatesFirst ==
    CliRuns({"add", "a"})
        => /\ (~args[1] /\ ~Exists(before, args[2]))
                => \A j \in CallsOf("set_interface") :
                      \E c \in CallsOf("create_interface") :
                         /\ c < j
                         /\ acc[c].args[1] = args[2]
                         /\ Exists(links, args[2])
           /\ args[1] => CallsOf("create_interface") = {}

\* `interface add eth0` on bat1, which did not exist, has created bat1 and
\* attached eth0 to it
C34_Witness ==
    /\ pc = "done"
    /\ op = "add"
    /\ ~args[1]
    /\ args[2] = Bat1
    /\ ~Exists(before, Bat1)
    /\ result.ok
    /\ CallsOf("set_interface") # {}
    /\ \E i \in DOMAIN links : links[i].name = Eth0 /\ links[i].master # 0

\* `interface del` without -M has returned after it counted more than 0
\* attached interfaces before the loop and 0 after it
LastDetached ==
    /\ pc = "done"
    /\ op \in {"del", "d"}
    /\ ~args[1]
    /\ result.ok
    /\ Len(lookups) = 3
    /\ lookups[2] > 0
    /\ lookups[3] = 0

\* C35 as claimed: `interface del` without -M that detached the last
\* interface of the mesh interface has destroyed the mesh interface; with -M
\* the mesh interface is left in place.
C35_LastDetachDestroys ==
    /\ LastDetached => ~Exists(links, args[2])
    /\ (CliRuns({"del", "d"}) /\ args[1]) => (Exists(links, args[2]) <=> Exists(before, args[2]))

\* what holds instead: `interface del` never calls destroy_interface and the
\* mesh interface stays, with or without -M; after the last detach without -M
\* the warning is printed.
C35_DelLeavesMesh ==
    /\ CliRuns({"del", "d"})
          => /\ CallsOf("destroy_interface") = {}
             /\ Exists(links, args[2]) <=> Exists(before, args[2])
    /\ LastDetached => acc[Len(acc)].call = "println"

-----------------------------------------------------------------------------
(* One terminal outcome per response stream (checked under Spec).          *)

\* the position of the first DONE or ERROR envelope, the length without one
FirstEnd(stream) ==
    IF \E i \in 1..Len(stream) : stream[i].type \in {"DONE", "ERROR"}
    THEN CHOOSE i \in 1..Len(stream) :
            /\ stream[i].type \in {"DONE", "ERROR"}
            /\ \A j \in 1..(i - 1) : stream[j].type \notin {"DONE", "ERROR"}
    ELSE Len(stream)

\* the stream holds only DATA envelopes that the running query decodes
Unterminated(stream) ==
    \A i \in 1..Len(stream) :
        /\ stream[i].type = "DATA"
        /\ stream[i].payload = "Payload"
        /\ op \in DumpOps => Extract(op, stream[i].attrs, links).res.ok

\* the query of ops has sent its request and returned
DumpReturned(ops) ==
    pc = "done" /\ op \in ops /\ Preamble(op, args[1], links).ok

OneOutcome(ops) ==
    DumpReturned(ops)
        => /\ result.ok \/ result.kind \in {"Netlink", "Parse", "NotFound"}
           /\ pos <= FirstEnd(response)
           /\ Unterminated(response) => (pos = Len(response) /\ result = Ok(acc))

\* C36 as claimed: every dump-style query, get_available_routing_algos
\* included, returns Ok or one error after taking no envelope beyond the first
\* DONE or ERROR envelope, and returns Ok with the entities pushed so far when
\* the stream ends without such an envelope.
C36_OneOutcomeByFirstTerminator == OneOutcome(DumpOps \cup {AlgoOp})

\* the same for the six queries that share the dump loop, which does hold
C36_DumpLoopOneOutcome == OneOutcome(DumpOps)

-----------------------------------------------------------------------------
(* set_interface and the resolution of its names (checked under SpecLink). *)

\* the name resolves in the link table lnk
Resolves(lnk, name) == if_nametoindex(lnk, name).ok

\* set_interface has returned, and one of its names did not resolve when it
\* was called
SetInterfaceUnresolved ==
    /\ pc = "done"
    /\ op = "set_interface"
    /\ \/ ~Resolves(before, args[1])
       \/ args[2] # None /\ ~Resolves(before, args[2][1])

\* C37: when the interface name or the mesh-interface name does not resolve,
\* set_interface returns a Netlink error, has built and sent no request, no
\* acknowledgement is pending, and the link table, the master of every link
\* included, is as it was when set_interface was called.
C37_NoRequestWhenUnresolved ==
    SetInterfaceUnresolved
        => /\ ~result.ok
           /\ result.kind = "Netlink"
           /\ request = << >>
           /\ reply = << >>
           /\ links = before

\* set_interface(eth0, bat1) has failed on the unknown bat1 while wlan0 was
\* attached to bat0
C37_Witness ==
    /\ SetInterfaceUnresolved
    /\ args = <<Eth0, Some(Bat1)>>
    /\ Resolves(before, Eth0)
    /\ \E i \in DOMAIN links : links[i].name = Wlan0 /\ links[i].master # 0

-----------------------------------------------------------------------------
(* set_interface and a link index that changes hands between the           *)
(* resolution of the name and the link-modify request.                     *)

Veth1 == <<118, 101, 116, 104, 49>>

\* another actor creates the link veth1 under the index that the built
\* request names, free since the link of that index was removed
LinkAppears ==
    /\ pc = "resolved"
    /\ request.index \notin DOMAIN links
    /\ \A i \in DOMAIN links : links[i].name # Veth1
    /\ links' = [j \in DOMAIN links \cup {request.index} |->
                    IF j = request.index
                    THEN [name |-> Veth1, master |-> 0, kind |-> "ether",
                          mesh |-> DefaultMesh]
                    ELSE links[j]]
    /\ UNCHANGED <<pc, op, args, response, pos, acc, lookups, result, request,
                   reply, before>>

NextReuse ==
    \/ \E iface \in HardNames \cup {Veth1} :
          \E m \in {None} \cup {Some(n) : n \in MeshNames} : set_interface(iface, m)
    \/ LinkDisappears
    \/ LinkAppears
    \/ set_interface_send
    \/ Finish

SpecReuse == InitLink /\ [][NextReuse]_vars

\* the links whose master the step changes
MasterChanged ==
    {i \in DOMAIN links \cap DOMAIN links' : links'[i].master # links[i].master}

\* C38 as claimed: when the kernel applies the link-modify request of
\* set_interface(iface, m), every link whose master changes is called iface at
\* that moment.
C38_OnlyNamedLinkChanges ==
    [][(pc = "resolved" /\ pc' = "done")
          => \A i \in MasterChanged : links[i].name = args[1]]_vars

\* what does hold: the request changes the master of the link that has the
\* resolved index at that moment, whatever its name, and of no other link
C38_OnlyResolvedIndexChanges ==
    [][(pc = "resolved" /\ pc' = "done")
          => \A i \in MasterChanged : i = request.index]_vars

-----------------------------------------------------------------------------
(* set_gateway with the mode Unknown (checked under SpecLink).             *)

UnknownModeReturned ==
    pc = "done" /\ op = "set_gateway" /\ args[1] = "Unknown"

\* C39: set_gateway called with the mode Unknown returns an error, a Parse
\* error when the mesh interface resolves; it has built and sent no set-mesh
\* request, so no acknowledgement is pending, and the link table with the
\* gateway mode of every mesh interface is as it was at the call.
C39_UnknownModeSendsNothing ==
    UnknownModeReturned
        => /\ ~result.ok
           /\ Resolves(before, args[5]) => result.kind = "Parse"
           /\ request = << >>
           /\ reply = << >>
           /\ links = before

\* set_gateway(Unknown) on bat0 has been refused while bat0 is a gateway
\* server
C39_Witness ==
    /\ UnknownModeReturned
    /\ args[5] = Bat0
    /\ result.kind = "Parse"
    /\ \E i \in DOMAIN links : links[i].name = Bat0 /\ links[i].mesh.gw_mode = 2

====
